---- MODULE Spec2Model ----
(***************************************************************************)
(* A model of the safety layer of the ArgoCD MCP server:                   *)
(*   - RateLimiter  (src/src/argocd_mcp/utils/safety.py)                   *)
(*   - SafetyGuard  (src/src/argocd_mcp/utils/safety.py)                   *)
(*   - the write and destructive tool handlers                             *)
(*                  (src/src/argocd_mcp/server.py)                         *)
(*   - AuditLogger and the correlation ID                                  *)
(*                  (src/src/argocd_mcp/utils/logging.py)                  *)
(*                                                                         *)
(* Time is time.time() read as a whole number of seconds; it never runs    *)
(* backwards.  An optional Python value (str | None) is a tuple: None is   *)
(* <<>> and the string s is <<s>>.                                         *)
(***************************************************************************)
EXTENDS Integers, Sequences, FiniteSets, TLC

VARIABLES
    read_only,            \* SecuritySettings.read_only
    disable_destructive,  \* SecuritySettings.disable_destructive
    single_cluster,       \* SecuritySettings.single_cluster
    max_calls,            \* RateLimiter._max_calls
    window,               \* RateLimiter._window
    calls,                \* RateLimiter._calls: key -> list of timestamps
    clients,              \* server._clients: the connected instance names
    now,                  \* the clock, time.time()
    last,                 \* the latest call made and what it returned
    focus,                \* the operation or tool a behaviour's calls name
    watch,                \* the key whose calls the three below observe
    hist,                 \* the latest timestamps admitted for that key
    run,                  \* a run of check(watch) calls at one instant
    sinceReset,           \* the check(watch) calls since reset covered it
    denied,               \* the check(watch) calls rejected since one passed
    log_path,             \* AuditLogger._log_path
    audit_file,           \* the lines of the file at _log_path, parsed
    correlation_id,       \* the ContextVar correlation_id of the scope
    nlogs,                \* the log() calls that have returned
    _settings,            \* server._settings
    _safety_guard,        \* server._safety_guard
    _audit_logger,        \* server._audit_logger
    tasks,                \* the tool invocations in flight, one per task
    context,              \* the ContextVar correlation_id in each task's context
    nreq,                 \* the tool calls received
    api_calls,            \* the times of the calls made to the ArgoCD API
    admitted,             \* the key and time of each check() that passed
    records,              \* the log() calls that returned: task, request, entry
    lifespan,             \* where the lifespan handler is, and its loop's rest
    _client,              \* ArgocdClient._client of each instance's client
    request,              \* the _request call in progress, if any
    opened,               \* the httpx clients made for each instance
    closed,               \* the httpx clients closed for each instance
    sent                  \* the HTTP requests sent

vars == <<read_only, disable_destructive, single_cluster, max_calls, window,
          calls, clients, now, last, focus, watch, hist, run, sinceReset,
          denied, log_path, audit_file, correlation_id, nlogs, _settings,
          _safety_guard, _audit_logger, tasks, context, nreq, api_calls,
          admitted, records, lifespan, _client, request, opened, closed,
          sent>>

transport == <<lifespan, _client, request, opened, closed, sent>>

auditing == <<log_path, audit_file, correlation_id, nlogs>>

serving == <<_settings, _safety_guard, _audit_logger, tasks, context, nreq,
            api_calls, admitted, records>>

settings == <<read_only, disable_destructive, single_cluster, max_calls, window>>

(***************************************************************************)
(* Bounds of the model.                                                    *)
(***************************************************************************)
MaxCalls == 2
MaxWindow == 2
MaxTime == 2
MaxDenied == 2
MaxLog == 2

\* The keys the limiter is called with directly; "" is a legal str key.
Keys == {"", "k1"}

None == <<>>
Some(s) == <<s>>

(***************************************************************************)
(* RateLimiter                                                             *)
(***************************************************************************)

\* self._calls = defaultdict(list): no key has an entry yet.
NoCalls == [k \in {} |-> <<>>]

\* RateLimiter(max_calls, window_seconds): the fields it sets.  It raises
\* for no argument.
RateLimiterInit(mc, ws) ==
    [max_calls |-> mc, window |-> ws, calls |-> NoCalls]

\* self._calls[key] read: a defaultdict gives [] for a key with no entry.
Get(c, key) == IF key \in DOMAIN c THEN c[key] ELSE <<>>

\* One list shared by every key.
PutShared(c, key, v) == [k \in (DOMAIN c) \cup {key} |-> v]

\* self._calls[key] = v
Put(c, key, v) == [k \in (DOMAIN c) \cup {key} |-> IF k = key THEN v ELSE c[k]]

\* self._calls.pop(key, None)
Pop(c, key) == [k \in (DOMAIN c) \ {key} |-> c[k]]

\* [t for t in self._calls[key] if now - t < self._window]
Prune(s, t) == SelectSeq(s, LAMBDA x : t - x < window)

\* check() admitting one call past the ceiling.
RLCheckOffByOne(c, key, t) ==
    LET pruned == SelectSeq(IF key \in DOMAIN c THEN c[key] ELSE <<>>,
                            LAMBDA x : t - x < window)
        c1 == [k \in (DOMAIN c) \cup {key} |->
                 IF k = key THEN pruned ELSE c[k]]
    IN  IF Len(pruned) > max_calls
        THEN [ok |-> FALSE, calls |-> c1]
        ELSE [ok |-> TRUE,
              calls |-> [c1 EXCEPT ![key] = Append(pruned, t)]]

\* check() recording the timestamp of a call it rejects.
RLCheckRecordsRejected(c, key, t) ==
    LET pruned == SelectSeq(IF key \in DOMAIN c THEN c[key] ELSE <<>>,
                            LAMBDA x : t - x < window)
        c1 == [k \in (DOMAIN c) \cup {key} |->
                 IF k = key THEN Append(pruned, t) ELSE c[k]]
    IN  [ok |-> Len(pruned) < max_calls, calls |-> c1]

\* check() that counts the unexpired timestamps without storing the pruned
\* list.
RLCheckCountsOnly(c, key, t) ==
    LET held == IF key \in DOMAIN c THEN c[key] ELSE <<>>
        pruned == SelectSeq(held, LAMBDA x : t - x < window)
        c1 == [k \in (DOMAIN c) \cup {key} |->
                 IF k = key THEN held ELSE c[k]]
    IN  IF Len(pruned) >= max_calls
        THEN [ok |-> FALSE, calls |-> c1]
        ELSE [ok |-> TRUE, calls |-> [c1 EXCEPT ![key] = Append(held, t)]]

\* RateLimiter.check(key) at time t: the answer and the mapping it leaves.
RLCheck(c, key, t) ==
    LET pruned == Prune(Get(c, key), t)
        c1 == Put(c, key, pruned)
    IN  IF Len(pruned) >= max_calls
        THEN [ok |-> FALSE, calls |-> c1]
        ELSE [ok |-> TRUE, calls |-> Put(c1, key, Append(pruned, t))]

\* Python truth of a str | None argument: None and "" are both falsy.
Truthy(optkey) == optkey # None /\ optkey # Some("")

\* reset(key) that leaves the entry of the key it is given.
RLResetKeepsKey(c, optkey) ==
    IF optkey # <<>> /\ optkey # <<"">> THEN c ELSE [k \in {} |-> <<>>]

\* RateLimiter.reset(key)
RLReset(c, optkey) ==
    IF Truthy(optkey) THEN Pop(c, optkey[1]) ELSE NoCalls

(***************************************************************************)
(* SafetyGuard.  A check_* method returns res, the value the method        *)
(* returns; calls, the limiter's mapping as it leaves it; and rl, the      *)
(* limiter checks it made, each <<key, answer>>, in order.                 *)
(***************************************************************************)
OperationBlocked(operation, reason, setting) ==
    [kind |-> "OperationBlocked", operation |-> operation, reason |-> reason,
     setting |-> setting]

ConfirmationRequired(operation, target, impact, instructions) ==
    [kind |-> "ConfirmationRequired", operation |-> operation,
     target |-> target, impact |-> impact,
     confirmation_instructions |-> instructions, details |-> <<>>]

\* The return value None of a check_* method.
Allowed == [kind |-> "None"]

\* SafetyGuard._get_impact_description
ImpactDescription(operation) ==
    CASE operation = "delete_application" ->
           "Application and all managed resources will be PERMANENTLY DELETED"
      [] operation = "sync_with_prune" ->
           "Resources not in Git will be DELETED from cluster"
      [] operation = "sync_with_force" ->
           "Resources will be replaced, potentially causing downtime"
      [] operation = "rollback" ->
           "Application will revert to previous state, may cause service disruption"
      [] OTHER -> "This operation may have significant impact"

\* check_read_operation with the read-only gate of the write check.
CheckReadGated(c, operation, t) ==
    IF read_only
    THEN [res |-> OperationBlocked(operation,
                                   "Server is running in read-only mode",
                                   "MCP_READ_ONLY"),
          calls |-> c, rl |-> <<>>]
    ELSE LET key == "read:" \o operation
             r == RLCheck(c, key, t)
         IN  IF ~r.ok
             THEN [res |-> OperationBlocked(operation, "Rate limit exceeded",
                                            "MCP_RATE_LIMIT_CALLS"),
                   calls |-> r.calls, rl |-> <<<<key, r.ok>>>>]
             ELSE [res |-> Allowed, calls |-> r.calls,
                   rl |-> <<<<key, r.ok>>>>]

\* SafetyGuard.check_read_operation
\* A check_read_operation counted under the key of the writes.
CheckReadOnWriteKey(c, operation, t) ==
    LET key == "write:" \o operation
        r == RLCheck(c, key, t)
    IN  IF ~r.ok
        THEN [res |-> OperationBlocked(operation, "Rate limit exceeded",
                                       "MCP_RATE_LIMIT_CALLS"),
              calls |-> r.calls, rl |-> <<<<key, r.ok>>>>]
        ELSE [res |-> Allowed, calls |-> r.calls, rl |-> <<<<key, r.ok>>>>]

CheckRead(c, operation, t) ==
    LET key == "read:" \o operation
        r == RLCheck(c, key, t)
    IN  IF ~r.ok
        THEN [res |-> OperationBlocked(operation, "Rate limit exceeded",
                                       "MCP_RATE_LIMIT_CALLS"),
              calls |-> r.calls, rl |-> <<<<key, r.ok>>>>]
        ELSE [res |-> Allowed, calls |-> r.calls, rl |-> <<<<key, r.ok>>>>]

\* check_write_operation asking the limiter before it reads read_only.
CheckWriteRateFirst(c, operation, t) ==
    LET key == "write:" \o operation
        r == RLCheck(c, key, t)
    IN  IF ~r.ok
        THEN [res |-> OperationBlocked(operation, "Rate limit exceeded",
                                       "MCP_RATE_LIMIT_CALLS"),
              calls |-> r.calls, rl |-> <<<<key, r.ok>>>>]
        ELSE IF read_only
        THEN [res |-> OperationBlocked(operation,
                                       "Server is running in read-only mode",
                                       "MCP_READ_ONLY"),
              calls |-> r.calls, rl |-> <<<<key, r.ok>>>>]
        ELSE [res |-> Allowed, calls |-> r.calls, rl |-> <<<<key, r.ok>>>>]

\* check_write_operation that asks the limiter before it looks at read_only.
CheckWriteCountsBlocked(c, operation, t) ==
    LET key == "write:" \o operation
        r == RLCheck(c, key, t)
    IN  IF read_only
        THEN [res |-> OperationBlocked(operation,
                                       "Server is running in read-only mode",
                                       "MCP_READ_ONLY"),
              calls |-> r.calls, rl |-> <<>>]
        ELSE IF ~r.ok
        THEN [res |-> OperationBlocked(operation, "Rate limit exceeded",
                                       "MCP_RATE_LIMIT_CALLS"),
              calls |-> r.calls, rl |-> <<<<key, r.ok>>>>]
        ELSE [res |-> Allowed, calls |-> r.calls, rl |-> <<<<key, r.ok>>>>]

\* SafetyGuard.check_write_operation
CheckWrite(c, operation, t) ==
    IF read_only
    THEN [res |-> OperationBlocked(operation,
                                   "Server is running in read-only mode",
                                   "MCP_READ_ONLY"),
          calls |-> c, rl |-> <<>>]
    ELSE LET key == "write:" \o operation
             r == RLCheck(c, key, t)
         IN  IF ~r.ok
             THEN [res |-> OperationBlocked(operation, "Rate limit exceeded",
                                            "MCP_RATE_LIMIT_CALLS"),
                   calls |-> r.calls, rl |-> <<<<key, r.ok>>>>]
             ELSE [res |-> Allowed, calls |-> r.calls,
                   rl |-> <<<<key, r.ok>>>>]

\* check_destructive_operation asking for confirmation before anything else.
CheckDestructiveConfirmFirst(c, operation, target, confirmed, confirm_name, t) ==
    IF ~confirmed \/ confirm_name # Some(target)
    THEN [res |-> ConfirmationRequired(
                      operation, target, ImpactDescription(operation),
                      "To proceed, set confirm=true AND confirm_name='"
                          \o target \o "'"),
          calls |-> c, rl |-> <<>>]
    ELSE LET w == CheckWrite(c, operation, t)
         IN  IF w.res # Allowed THEN w
             ELSE IF disable_destructive
             THEN [w EXCEPT !.res =
                     OperationBlocked(operation,
                                      "Destructive operations are disabled",
                                      "MCP_DISABLE_DESTRUCTIVE")]
             ELSE w

\* check_destructive_operation taking confirm=true for enough.
CheckDestructiveFlagOnly(c, operation, target, confirmed, confirm_name, t) ==
    LET w == CheckWrite(c, operation, t)
    IN  IF w.res # Allowed THEN w
        ELSE IF disable_destructive
        THEN [w EXCEPT !.res =
                OperationBlocked(operation,
                                 "Destructive operations are disabled",
                                 "MCP_DISABLE_DESTRUCTIVE")]
        ELSE IF ~confirmed
        THEN [w EXCEPT !.res =
                ConfirmationRequired(
                    operation, target, ImpactDescription(operation),
                    "To proceed, set confirm=true AND confirm_name='"
                        \o target \o "'")]
        ELSE w

\* SafetyGuard.check_destructive_operation
CheckDestructive(c, operation, target, confirmed, confirm_name, t) ==
    LET w == CheckWrite(c, operation, t)
    IN  IF w.res # Allowed THEN w
        ELSE IF disable_destructive
        THEN [w EXCEPT !.res =
                OperationBlocked(operation,
                                 "Destructive operations are disabled",
                                 "MCP_DISABLE_DESTRUCTIVE")]
        ELSE IF ~confirmed \/ confirm_name # Some(target)
        THEN [w EXCEPT !.res =
                ConfirmationRequired(
                    operation, target, ImpactDescription(operation),
                    "To proceed, set confirm=true AND confirm_name='"
                        \o target \o "'")]
        ELSE w

\* check_cluster_operation that blocks every cluster in single-cluster mode.
CheckClusterFlagOnly(operation, cluster) ==
    IF single_cluster
    THEN OperationBlocked(operation,
                          "Operation on cluster '" \o cluster
                              \o "' blocked in single-cluster mode",
                          "MCP_SINGLE_CLUSTER")
    ELSE Allowed

\* SafetyGuard.check_cluster_operation
CheckCluster(operation, cluster) ==
    IF single_cluster /\ cluster # "in-cluster"
    THEN OperationBlocked(operation,
                          "Operation on cluster '" \o cluster
                              \o "' blocked in single-cluster mode",
                          "MCP_SINGLE_CLUSTER")
    ELSE Allowed

(***************************************************************************)
(* What is recorded of a limiter step.                                     *)
(***************************************************************************)
NoRun == <<>>

\* The latest max_calls + 1 timestamps admitted for the watched key.
Admit(h, t) ==
    LET h1 == Append(h, t)
    IN  IF Len(h1) > max_calls + 1 THEN Tail(h1) ELSE h1

\* A run starts with a check(watch) on a key that retains no timestamp and
\* goes on while check(watch) is called again at the same instant; it holds
\* the answers of its first max_calls + 1 calls.
NextRun(key, ok) ==
    IF key # watch THEN run
    ELSE IF run # NoRun
         THEN IF Len(run) <= max_calls THEN Append(run, ok) ELSE run
         ELSE IF Get(calls, key) = <<>> THEN <<ok>> ELSE NoRun

\* The check(watch) calls since a reset covered the key, to max_calls + 1;
\* -1 before any reset.
Bump(key, n) ==
    IF key # watch \/ n < 0 \/ n > max_calls THEN n ELSE n + 1

\* The check(watch) calls rejected since the last admitted one, to MaxDenied.
NextDenied(key, ok) ==
    IF key # watch THEN denied
    ELSE IF ok THEN 0
    ELSE IF denied < MaxDenied THEN denied + 1 ELSE denied

\* Whether the oldest timestamp a key retains is a full window old at time t.
Stale(c, key, t) == Get(c, key) # <<>> /\ t - Get(c, key)[1] >= window

(***************************************************************************)
(* The limiter called directly.                                            *)
(***************************************************************************)
Check(key) ==
    LET r == RLCheck(calls, key, now)
    IN  /\ calls' = r.calls
        /\ last' = [op |-> "check", key |-> key, ok |-> r.ok,
                    stale |-> Stale(calls, key, now),
                    denied |-> IF key = watch THEN denied ELSE 0]
        /\ hist' = IF r.ok /\ key = watch THEN Admit(hist, now) ELSE hist
        /\ run' = NextRun(key, r.ok)
        /\ sinceReset' = Bump(key, sinceReset)
        /\ denied' = NextDenied(key, r.ok)
        /\ UNCHANGED <<transport, serving, auditing, settings, clients, now, focus, watch>>

Reset(optkey) ==
    /\ calls' = RLReset(calls, optkey)
    /\ last' = [op |-> "reset", key |-> optkey]
    /\ sinceReset' = IF optkey = None \/ optkey = Some(watch)
                     THEN 0 ELSE sinceReset
    /\ run' = NoRun
    /\ UNCHANGED <<transport, serving, auditing, settings, clients, now, focus, watch, hist,
                   denied>>

Tick ==
    /\ now < MaxTime
    /\ now' = now + 1
    /\ run' = NoRun
    /\ UNCHANGED <<transport, serving, auditing, settings, calls, clients, last, focus, watch, hist,
                   sinceReset, denied>>

(***************************************************************************)
(* The guard called directly.                                              *)
(***************************************************************************)
Operations == {"delete_application", "sync_application"}
Targets == {"app-a"}
ConfirmNames == {None, Some("app-a"), Some("APP-A")}

observers == <<focus, watch, hist, run, sinceReset, denied>>

GuardRead(operation) ==
    LET r == CheckRead(calls, operation, now)
    IN  /\ calls' = r.calls
        /\ last' = [op |-> "check_read", operation |-> operation,
                    res |-> r.res, rl |-> r.rl]
        /\ UNCHANGED <<transport, serving, auditing, settings, clients, now, observers>>

GuardWrite(operation) ==
    LET r == CheckWrite(calls, operation, now)
    IN  /\ calls' = r.calls
        /\ last' = [op |-> "check_write", operation |-> operation,
                    res |-> r.res, rl |-> r.rl]
        /\ UNCHANGED <<transport, serving, auditing, settings, clients, now, observers>>

GuardDestructive(operation, target, confirmed, confirm_name) ==
    LET r == CheckDestructive(calls, operation, target, confirmed,
                              confirm_name, now)
    IN  /\ calls' = r.calls
        /\ last' = [op |-> "check_destructive", operation |-> operation,
                    target |-> target, confirmed |-> confirmed,
                    confirm_name |-> confirm_name,
                    res |-> r.res, rl |-> r.rl]
        /\ UNCHANGED <<transport, serving, auditing, settings, clients, now, observers>>

\* The cluster names check_cluster_operation is called with.
Clusters == {"in-cluster", "In-Cluster", "remote-x"}

GuardCluster(operation, cluster) ==
    /\ last' = [op |-> "check_cluster", operation |-> operation,
                cluster |-> cluster, res |-> CheckCluster(operation, cluster),
                rl |-> <<>>]
    /\ UNCHANGED <<transport, serving, auditing, settings, calls, clients, now, observers>>

(***************************************************************************)
(* The tool handlers of server.py.  An invocation leaves in last: check,   *)
(* the value its check_* call returned; rl, the limiter checks made;       *)
(* backend, the ArgocdClient calls it made, in order; audit, the entries   *)
(* it gave the AuditLogger, in order; and out, the text it returned or     *)
(* the exception that left it.                                             *)
(***************************************************************************)
Instances == {"primary", "staging"}

\* What an ArgocdClient call comes to: it returns, raises ArgocdError (an
\* HTTP status >= 400), or times out on each of its three attempts, which
\* the retry decorator ends with a RetryError.
Outcomes == {"ok", "ArgocdError", "TimeoutException"}

\* str(bool)
PyBool(b) == IF b THEN "True" ELSE "False"

\* str(e) of the ArgocdError the backend raised.
ErrorText == "ArgoCD API error (500): HTTP 500"

\* OperationBlocked.format_message
FormatBlocked(b) ==
    "OPERATION BLOCKED: " \o b.operation \o "\n"
        \o "Reason: " \o b.reason \o "\n"
        \o "Setting: " \o b.setting \o "\n"
        \o "To enable: Set " \o b.setting \o "=false in server configuration"

RECURSIVE DetailLines(_)
DetailLines(d) ==
    IF d = <<>> THEN ""
    ELSE "\n  " \o d[1][1] \o ": " \o d[1][2] \o DetailLines(Tail(d))

\* ConfirmationRequired.format_message
FormatConfirmation(b) ==
    "CONFIRMATION REQUIRED: " \o b.operation \o "\n\n"
        \o "Target: " \o b.target \o "\n"
        \o "Impact: " \o b.impact
        \o (IF b.details # <<>>
            THEN "\n\nDetails:" \o DetailLines(b.details) ELSE "")
        \o "\n\n" \o b.confirmation_instructions

Returned(text) == [kind |-> "return", text |-> text]
Raised(error) == [kind |-> "raise", error |-> error]

\* AuditLogger.log_blocked, log_write, log_error: the entry handed to log().
LogBlocked(action, target, reason) ==
    [action |-> action, target |-> target, result |-> "blocked",
     details |-> <<<<"reason", reason>>>>]
LogWrite(action, target, result, details) ==
    [action |-> action, target |-> target, result |-> result,
     details |-> details]
LogError(action, target, error) ==
    [action |-> action, target |-> target, result |-> "error",
     details |-> <<<<"error", error>>>>]

\* get_client(instance), the backend call and the except clause that
\* follow an admitted check: calls is the backend call to make, done the
\* audit entry and the text of the call returning.
Proceed(instance, outcome, call, action, target, done, text) ==
    IF instance \notin clients
    THEN [backend |-> <<>>, audit |-> <<>>, out |-> Raised("ValueError")]
    ELSE IF outcome = "ok"
    THEN [backend |-> <<call>>, audit |-> <<done>>, out |-> Returned(text)]
    ELSE IF outcome = "ArgocdError"
    THEN [backend |-> <<call>>,
          audit |-> <<LogError(action, target, ErrorText)>>,
          out |-> Returned(ErrorText)]
    ELSE [backend |-> <<call>>, audit |-> <<>>, out |-> Raised("RetryError")]

\* The handler's result put beside what it was called with.
Invocation(tool, params, g, h) ==
    [op |-> "tool", tool |-> tool, params |-> params, check |-> g.res,
     rl |-> g.rl, backend |-> h.backend, audit |-> h.audit, out |-> h.out]

\* A sync_application that takes a dry run for a read.
SyncCheckDryRunAsRead(c, name, dry_run, prune, t) ==
    IF dry_run THEN CheckRead(c, "sync_application", t)
    ELSE IF prune
    THEN CheckDestructive(c, "sync_with_prune", name, FALSE, None, t)
    ELSE CheckWrite(c, "sync_application", t)

\* A sync_application that takes its own prune flag for the confirmation.
SyncCheckConfirmsPrune(c, name, dry_run, prune, t) ==
    IF prune /\ ~dry_run
    THEN CheckDestructive(c, "sync_with_prune", name, TRUE, Some(name), t)
    ELSE CheckWrite(c, "sync_application", t)

\* sync_application: the checks before the try block.
SyncCheck(c, name, dry_run, prune, t) ==
    IF prune /\ ~dry_run
    THEN CheckDestructive(c, "sync_with_prune", name, FALSE, None, t)
    ELSE CheckWrite(c, "sync_application", t)

\* sync_application: what follows the checks.
SyncBody(g, name, dry_run, prune, force, revision, instance, outcome) ==
    IF g.res.kind = "ConfirmationRequired"
    THEN [backend |-> <<>>,
          audit |-> <<LogBlocked("sync_application", name,
                                 "prune requires confirmation")>>,
          out |-> Returned(
              "PRUNE REQUIRES CONFIRMATION\n\nSyncing '" \o name
                  \o "' with prune=true will DELETE resources that exist"
                  \o " in the cluster but not in Git.\n\nFirst, run with"
                  \o " dry_run=true to preview deletions:\n"
                  \o "  sync_application(name='" \o name
                  \o "', dry_run=true, prune=true)\n\nFor pruning, use the"
                  \o " destructive sync tool with confirmation.")]
    ELSE IF g.res.kind = "OperationBlocked"
    THEN [backend |-> <<>>,
          audit |-> IF prune /\ ~dry_run THEN <<>>
                    ELSE <<LogBlocked("sync_application", name,
                                      g.res.reason)>>,
          out |-> Returned(FormatBlocked(g.res))]
    ELSE Proceed(instance, outcome,
                 [method |-> "sync_application", name |-> name,
                  dry_run |-> dry_run, prune |-> prune, force |-> force,
                  revision |-> revision],
                 "sync_application", name,
                 IF dry_run
                 THEN LogWrite("sync_application", name, "dry_run", <<>>)
                 ELSE LogWrite("sync_application", name, "initiated",
                               <<<<"prune", prune>>, <<"force", force>>>>),
                 IF dry_run
                 THEN "Dry-run sync complete for '" \o name
                          \o "'\n\nOperation would affect resources. To"
                          \o " apply:\n  sync_application(name='" \o name
                          \o "', dry_run=false)"
                 ELSE "Sync initiated for '" \o name \o "'\nRevision: "
                          \o (IF revision = None THEN "HEAD" ELSE revision[1])
                          \o "\nPrune: " \o PyBool(prune)
                          \o "\n\nUse get_application_status to monitor"
                          \o " progress.")

SyncApplication(name, dry_run, prune, force, revision, instance, outcome) ==
    LET g == SyncCheck(calls, name, dry_run, prune, now)
    IN  /\ calls' = g.calls
        /\ last' = Invocation("sync_application",
                              [name |-> name, dry_run |-> dry_run,
                               prune |-> prune, force |-> force,
                               instance |-> instance],
                              g, SyncBody(g, name, dry_run, prune, force,
                                          revision, instance, outcome))
        /\ UNCHANGED <<transport, serving, auditing, settings, clients, now, observers>>

\* What follows check_write_operation in refresh_application,
\* rollback_application and terminate_sync.
WriteBody(tool, g, name, instance, outcome, call, done, text) ==
    IF g.res # Allowed
    THEN [backend |-> <<>>,
          audit |-> <<LogBlocked(tool, name, g.res.reason)>>,
          out |-> Returned(FormatBlocked(g.res))]
    ELSE Proceed(instance, outcome, call, tool, name, done, text)

RefreshApplication(name, hard, instance, outcome) ==
    LET g == CheckWrite(calls, "refresh_application", now)
    IN  /\ calls' = g.calls
        /\ last' = Invocation("refresh_application",
              [name |-> name, hard |-> hard, instance |-> instance], g,
              WriteBody("refresh_application", g, name, instance, outcome,
                  [method |-> "refresh_application", name |-> name,
                   hard |-> hard],
                  LogWrite("refresh_application", name, "success",
                           <<<<"hard", hard>>>>),
                  "Refresh triggered for '" \o name \o "' ("
                      \o (IF hard THEN "hard" ELSE "normal") \o ")\n"
                      \o "Current status: health=Healthy, sync=Synced"))
        /\ UNCHANGED <<transport, serving, auditing, settings, clients, now, observers>>

RollbackApplication(name, revision_id, dry_run, instance, outcome) ==
    LET g == CheckWrite(calls, "rollback_application", now)
    IN  /\ calls' = g.calls
        /\ last' = Invocation("rollback_application",
              [name |-> name, revision_id |-> revision_id,
               dry_run |-> dry_run, instance |-> instance], g,
              WriteBody("rollback_application", g, name, instance, outcome,
                  [method |-> "rollback_application", name |-> name,
                   revision_id |-> revision_id, dry_run |-> dry_run],
                  IF dry_run
                  THEN LogWrite("rollback_application", name, "dry_run",
                                <<>>)
                  ELSE LogWrite("rollback_application", name, "initiated",
                                <<<<"revision_id", revision_id>>>>),
                  IF dry_run
                  THEN "Dry-run rollback complete for '" \o name
                           \o "' to revision " \o ToString(revision_id)
                           \o "\n\nTo apply the rollback:\n"
                           \o "  rollback_application(name='" \o name
                           \o "', revision_id=" \o ToString(revision_id)
                           \o ", dry_run=false)"
                  ELSE "Rollback initiated for '" \o name
                           \o "' to revision " \o ToString(revision_id)
                           \o "\n\nUse get_application_status to monitor"
                           \o " progress."))
        /\ UNCHANGED <<transport, serving, auditing, settings, clients, now, observers>>

TerminateSync(name, instance, outcome) ==
    LET g == CheckWrite(calls, "terminate_sync", now)
    IN  /\ calls' = g.calls
        /\ last' = Invocation("terminate_sync",
              [name |-> name, instance |-> instance], g,
              WriteBody("terminate_sync", g, name, instance, outcome,
                  [method |-> "terminate_sync", name |-> name],
                  LogWrite("terminate_sync", name, "terminated", <<>>),
                  "Sync operation terminated for '" \o name
                      \o "'\n\nUse get_application_status to check current"
                      \o " state."))
        /\ UNCHANGED <<transport, serving, auditing, settings, clients, now, observers>>

\* The applications the backend holds, and the cluster each is deployed to
\* (spec.destination of the application, as Application.from_api_response
\* reads it): "app-a" on the cluster ArgoCD runs in, "app-remote" elsewhere.
Applications == {"app-a", "app-remote"}

DestinationCluster(name) ==
    IF name = "app-remote" THEN "remote-x" ELSE "in-cluster"

\* app.destination_server
DestinationServer(name) ==
    IF DestinationCluster(name) = "in-cluster"
    THEN "https://kubernetes.default.svc"
    ELSE "https://remote-x.example.com:6443"

\* delete_application: the branch of a ConfirmationRequired result, which
\* asks the backend for the application to fill in the details.
DeleteConfirmation(b, name, cascade, instance, outcome) ==
    LET details == <<<<"namespace", "default">>,
                     <<"cluster", DestinationServer(name)>>,
                     <<"cascade", PyBool(cascade)>>,
                     <<"effect", IF cascade THEN "DELETE cluster resources"
                                 ELSE "ORPHAN cluster resources">>>>
        call == [method |-> "get_application", name |-> name]
        entry == LogBlocked("delete_application", name,
                            "confirmation required")
    IN  IF instance \notin clients
        THEN [backend |-> <<>>, audit |-> <<>>,
              out |-> Raised("ValueError")]
        ELSE IF outcome = "ok"
        THEN [backend |-> <<call>>, audit |-> <<entry>>,
              out |-> Returned(FormatConfirmation(
                                   [b EXCEPT !.details = details]))]
        ELSE IF outcome = "ArgocdError"
        THEN [backend |-> <<call>>, audit |-> <<entry>>,
              out |-> Returned(FormatConfirmation(b))]
        ELSE [backend |-> <<call>>, audit |-> <<>>,
              out |-> Raised("RetryError")]

\* A delete_application that stops at ConfirmationRequired alone.
DeleteBodyPassesBlocked(g, name, cascade, instance, outcome) ==
    IF g.res.kind = "ConfirmationRequired"
    THEN DeleteConfirmation(g.res, name, cascade, instance, outcome)
    ELSE Proceed(instance, outcome,
                 [method |-> "delete_application", name |-> name,
                  cascade |-> cascade],
                 "delete_application", name,
                 LogWrite("delete_application", name, "deleted",
                          <<<<"cascade", cascade>>>>),
                 "Application '" \o name \o "' deleted successfully.\n"
                     \o "Cascade: " \o PyBool(cascade))

\* delete_application: what follows check_destructive_operation.
DeleteBody(g, name, cascade, instance, outcome) ==
    IF g.res.kind = "ConfirmationRequired"
    THEN DeleteConfirmation(g.res, name, cascade, instance, outcome)
    ELSE IF g.res.kind = "OperationBlocked"
    THEN [backend |-> <<>>, audit |-> <<>>,
          out |-> Returned(FormatBlocked(g.res))]
    ELSE Proceed(instance, outcome,
                 [method |-> "delete_application", name |-> name,
                  cascade |-> cascade],
                 "delete_application", name,
                 LogWrite("delete_application", name, "deleted",
                          <<<<"cascade", cascade>>>>),
                 "Application '" \o name \o "' deleted successfully.\n"
                     \o "Cascade: " \o PyBool(cascade))

DeleteApplication(name, cascade, confirm, confirm_name, instance, outcome) ==
    LET g == CheckDestructive(calls, "delete_application", name, confirm,
                              confirm_name, now)
    IN  /\ calls' = g.calls
        /\ last' = Invocation("delete_application",
                              [name |-> name, cascade |-> cascade,
                               confirm |-> confirm,
                               confirm_name |-> confirm_name,
                               instance |-> instance],
                              g, DeleteBody(g, name, cascade, instance,
                                            outcome))
        /\ UNCHANGED <<transport, serving, auditing, settings, clients, now, observers>>

(***************************************************************************)
(* The correlation ID and AuditLogger of utils/logging.py.  A line of the  *)
(* audit file is the JSON object json.dumps wrote: a function from its     *)
(* keys to their values.  The details argument of log() is None, or        *)
(* Some(d) with d the mapping as a sequence of <<key, value>> pairs.       *)
(***************************************************************************)

\* What str(uuid.uuid4())[:8] may give.
Generated == {"a3f8c2d1", "0b1c2d3e"}

\* get_correlation_id that hands out a new ID without storing it.
GetCorrelationIdNotStored(cid, uuid) ==
    IF cid = "" THEN [value |-> uuid, stored |-> cid]
    ELSE [value |-> cid, stored |-> cid]

\* get_correlation_id(): the value it returns and the value it leaves in
\* the ContextVar, whose default is "".
GetCorrelationId(cid, uuid) ==
    IF cid = "" THEN [value |-> uuid, stored |-> uuid]
    ELSE [value |-> cid, stored |-> cid]

\* Python truth of the details argument: None and {} are both falsy.
HasDetails(details) == details # None /\ details[1] # <<>>

\* An entry that carries a details key whatever it was given.
AuditEntryAlwaysDetails(t, cid, action, target, result, details) ==
    [timestamp |-> t, correlation_id |-> cid, action |-> action,
     target |-> target, result |-> result,
     details |-> IF details = <<>> THEN <<>> ELSE details[1]]

\* AuditLogger.log: the entry dict it builds.
AuditEntry(t, cid, action, target, result, details) ==
    IF HasDetails(details)
    THEN [timestamp |-> t, correlation_id |-> cid, action |-> action,
          target |-> target, result |-> result, details |-> details[1]]
    ELSE [timestamp |-> t, correlation_id |-> cid, action |-> action,
          target |-> target, result |-> result]

\* A file opened for writing from its start instead of for appending.
WriteLineTruncating(file, entry) == <<entry>>

\* with self._log_path.open("a") as f: f.write(json.dumps(entry) + "\n")
WriteLine(file, entry) == Append(file, entry)

\* What opening and writing the file may come to.
FileOutcomes == {"ok", "OSError"}

\* AuditLogger.log, reached directly or through the method named by via.
\* The entry is built, correlation ID included, before the file is opened.
Log(via, action, target, result, details, uuid, io) ==
    LET c == GetCorrelationId(correlation_id, uuid)
        entry == AuditEntry(now, c.value, action, target, result, details)
        written == log_path # None /\ io = "ok"
        failed == log_path # None /\ io # "ok"
    IN  /\ nlogs < MaxLog
        /\ correlation_id' = c.stored
        /\ audit_file' = IF written THEN WriteLine(audit_file, entry)
                         ELSE audit_file
        /\ nlogs' = IF failed THEN nlogs ELSE nlogs + 1
        /\ last' = [op |-> "log", via |-> via, action |-> action,
                    target |-> target, result |-> result,
                    details |-> details, cid |-> c.value,
                    out |-> IF failed THEN Raised(io)
                            ELSE IF written THEN Returned("")
                            ELSE Returned("stdout")]
        /\ UNCHANGED <<transport, serving, settings, calls, clients, now, log_path, observers>>

AuditLogRead(action, target, uuid, io) ==
    Log("log_read", action, target, "success", None, uuid, io)

AuditLogWrite(action, target, result, details, uuid, io) ==
    Log("log_write", action, target, result, details, uuid, io)

AuditLogBlocked(action, target, reason, uuid, io) ==
    Log("log_blocked", action, target, "blocked",
        Some(<<<<"reason", reason>>>>), uuid, io)

AuditLogError(action, target, error, uuid, io) ==
    Log("log_error", action, target, "error",
        Some(<<<<"error", error>>>>), uuid, io)

\* get_correlation_id() called by itself.
ReadCorrelationId(uuid) ==
    LET c == GetCorrelationId(correlation_id, uuid)
    IN  /\ correlation_id' = c.stored
        /\ last' = [op |-> "get_correlation_id", cid |-> c.value]
        /\ UNCHANGED <<transport, serving, settings, calls, clients, now, log_path, audit_file,
                       nlogs, observers>>

\* set_correlation_id(cid)
SetCorrelationId(cid) ==
    /\ correlation_id' = cid
    /\ last' = [op |-> "set_correlation_id", cid |-> cid]
    /\ UNCHANGED <<transport, serving, settings, calls, clients, now, log_path, audit_file,
                   nlogs, observers>>

(***************************************************************************)
(* ArgocdClient: the HTTP client it holds between __aenter__ and           *)
(* __aexit__, and _request under its retry decorator.                      *)
(***************************************************************************)
MaxEnters == 2
MaxSent == 3

\* stop=stop_after_attempt(3)
StopAfterAttempt == 3

\* What an HTTP request may come to: a response below 400, a response of
\* 400 or above, a timeout, another transport error.
Responses == {"200", "500", "TimeoutException", "ConnectError"}

NoRequest == [pc |-> "idle"]

\* __aenter__: the client made and kept in self._client.
ClientEnter(cl) == [client |-> Some("AsyncClient"), opened |-> 1]

\* An __aexit__ that closes the client and keeps it in self._client.
ClientExitKeepsClient(cl) ==
    IF cl # None THEN [client |-> cl, closed |-> 1]
    ELSE [client |-> None, closed |-> 0]

\* __aexit__: the client closed and dropped, if there is one.
ClientExit(cl) ==
    IF cl # None THEN [client |-> None, closed |-> 1]
    ELSE [client |-> None, closed |-> 0]

\* The body of _request for one attempt: what it sends and how it ends.
RequestBody(cl, response) ==
    IF cl = None THEN [sent |-> 0, out |-> Raised("RuntimeError")]
    ELSE IF response = "200" THEN [sent |-> 1, out |-> Returned("{}")]
    ELSE IF response = "500" THEN [sent |-> 1, out |-> Raised("ArgocdError")]
    ELSE [sent |-> 1, out |-> Raised(response)]

\* A decorator that retries whatever the body raised.
RetriesAnyError(error, attempt) == attempt < StopAfterAttempt

\* @retry: the body is run again after this error of this attempt.
Retries(error, attempt) ==
    error = "TimeoutException" /\ attempt < StopAfterAttempt

\* What leaves _request when the decorator stops: tenacity wraps the last
\* error of a retried kind in RetryError, any other error passes through.
RequestOutcome(out) ==
    IF out.kind = "raise" /\ out.error = "TimeoutException"
    THEN Raised("RetryError") ELSE out

\* async with client: __aenter__
AEnter(instance) ==
    /\ opened[instance] < MaxEnters
    /\ _client' = [_client EXCEPT ![instance] = ClientEnter(@).client]
    /\ opened' = [opened EXCEPT ![instance] = @ + ClientEnter(_client[instance]).opened]
    /\ last' = [op |-> "aenter", instance |-> instance]
    /\ UNCHANGED <<auditing, serving, settings, calls, clients, now,
                   observers, lifespan, request, closed, sent>>

\* __aexit__
AExit(instance) ==
    /\ _client' = [_client EXCEPT ![instance] = ClientExit(@).client]
    /\ closed' = [closed EXCEPT ![instance] = @ + ClientExit(_client[instance]).closed]
    /\ last' = [op |-> "aexit", instance |-> instance]
    /\ UNCHANGED <<auditing, serving, settings, calls, clients, now,
                   observers, lifespan, request, opened, sent>>

\* An API method of the client of instance calls _request.
RequestCall(instance) ==
    /\ request = NoRequest
    /\ sent < MaxSent
    /\ request' = [pc |-> "attempt", instance |-> instance,
                   responses |-> <<>>, sent |-> 0]
    /\ last' = [op |-> "call", instance |-> instance]
    /\ UNCHANGED <<auditing, serving, settings, calls, clients, now,
                   observers, lifespan, _client, opened, closed, sent>>

\* One attempt of the _request in progress, and the decorator's decision.
RequestAttempt(response) ==
    LET r == RequestBody(_client[request.instance], response)
        seen == Append(request.responses,
                       IF r.sent = 0 THEN "none" ELSE response)
        again == r.out.kind = "raise" /\ Retries(r.out.error, Len(seen))
    IN  /\ request.pc = "attempt"
        /\ sent' = sent + r.sent
        /\ request' = IF again
                      THEN [request EXCEPT !.responses = seen,
                                           !.sent = @ + r.sent]
                      ELSE NoRequest
        /\ last' = IF again
                   THEN [op |-> "retry", instance |-> request.instance]
                   ELSE [op |-> "request", instance |-> request.instance,
                         responses |-> seen, sent |-> request.sent + r.sent,
                         out |-> RequestOutcome(r.out)]
        /\ UNCHANGED <<auditing, serving, settings, calls, clients, now,
                       observers, lifespan, _client, opened, closed>>

(***************************************************************************)
(* The server: the globals the lifespan handler sets, and the read tools,  *)
(* each invocation a task of the event loop that runs from one await to    *)
(* the next without another task running in between.                       *)
(***************************************************************************)
MaxRequests == 2

Tasks == {"t1", "t2"}
ReadTools == {"list_applications", "diagnose_sync_failure"}

\* settings.all_instances: the instances the lifespan handler connects.
\* all_instances of the widest configuration: the primary instance, then
\* the additional ones.
AllInstancesList == <<"primary", "staging">>

AllInstances == {"primary"}

\* A task with no handler running.
Idle == [pc |-> "idle"]

NotInitialized == Raised("RuntimeError: Server not initialized")

\* get_settings()
GetSettings(s) == IF s = None THEN NotInitialized ELSE Returned(s[1])

\* A get_safety_guard that hands out the global unchecked.
GetSafetyGuardUnchecked(g) == Returned("SafetyGuard")

\* get_safety_guard()
GetSafetyGuard(g) == IF g = None THEN NotInitialized ELSE Returned(g[1])

\* get_audit_logger()
GetAuditLogger(a) == IF a = None THEN NotInitialized ELSE Returned(a[1])

\* get_client(instance) over the dict _clients
GetClient(cs, instance) ==
    IF instance \notin cs THEN Raised("ValueError") ELSE Returned(instance)

\* A correlation ID kept in one variable of the module, shared by all tasks.
ContextSetShared(ctx, task, cid) == [t \in DOMAIN ctx |-> cid]

\* correlation_id.set(cid) in the context of the running task.
ContextSet(ctx, task, cid) == [ctx EXCEPT ![task] = cid]

\* A check that works on the map as it was when the call was received.
CallsSeenStale(live, received) == received

\* The map check() reads and writes: nothing awaits between the handler's
\* call of check() and its return, so it is the map as it is now.
CallsSeen(live, received) == live

\* AuditLogger.log_read: the entry handed to log().
LogRead(action, target) ==
    [action |-> action, target |-> target, result |-> "success",
     details |-> <<>>]

\* A log() that catches the error of the file and returns.
AuditLogCallSwallows(path, file, cid, t, e, uuid, io) ==
    LET c == GetCorrelationId(cid, uuid)
        entry == AuditEntry(t, c.value, e.action, e.target, e.result,
                            Some(e.details))
    IN  [cid |-> c.stored, entry |-> entry,
         file |-> IF path # None /\ io = "ok" THEN WriteLine(file, entry)
                  ELSE file,
         out |-> Returned("")]

\* AuditLogger.log for a caller whose context holds cid: the ID its context
\* holds afterwards, the entry, the file and how the call ends.
AuditLogCall(path, file, cid, t, e, uuid, io) ==
    LET c == GetCorrelationId(cid, uuid)
        entry == AuditEntry(t, c.value, e.action, e.target, e.result,
                            Some(e.details))
    IN  [cid |-> c.stored, entry |-> entry,
         file |-> IF path # None /\ io = "ok" THEN WriteLine(file, entry)
                  ELSE file,
         out |-> IF path # None /\ io # "ok" THEN Raised(io)
                 ELSE Returned("")]

\* The ArgoCD API calls of a read tool, in the order it awaits them.
BackendCalls(tool) ==
    IF tool = "diagnose_sync_failure"
    THEN <<"get_application", "get_resource_tree", "get_application_events">>
    ELSE <<"list_applications">>

\* The target each tool names in its audit entries.
BlockedTarget(inv) ==
    IF inv.tool = "list_applications" THEN "all" ELSE inv.name
ReadTarget(inv) ==
    IF inv.tool = "list_applications" THEN "project=None" ELSE inv.name

\* What the tool returns when every call came back and nothing is wrong.
ReadText(inv) ==
    IF inv.tool = "list_applications"
    THEN "No applications found matching the specified filters."
    ELSE "Diagnosis for '" \o inv.name \o "':\n\n"
             \o "No issues detected. Application appears healthy.\n"
             \o "Health: Healthy, Sync: Synced"

\* What a stretch of a handler leaves: the limiter's map, the contexts, the
\* file, the entries log() returned for, the checks that passed, and what
\* the handler ended with, if it ended.
Segment(c, ctx, file, logged, passed, out) ==
    [calls |-> c, context |-> ctx, file |-> file, logged |-> logged,
     passed |-> passed, out |-> out]

\* The end of a handler in a log() call: w is what the call left.
Logged(c, ctx, task, w, passed, text) ==
    Segment(c, ContextSet(ctx, task, w.cid), w.file,
            IF w.out.kind = "raise" THEN <<>> ELSE <<w.entry>>, passed,
            IF w.out.kind = "raise" THEN <<w.out>> ELSE <<Returned(text)>>)

\* A read tool from its first line to its first await.
ReadToolEntry(task, uuid, io) ==
    LET inv == tasks[task]
        ctx == ContextSet(context, task, inv.request_id)
        guard == GetSafetyGuard(_safety_guard)
        g == CheckRead(CallsSeen(calls, inv.seen), inv.tool, now)
        logger == GetAuditLogger(_audit_logger)
        w == AuditLogCall(log_path, audit_file, ctx[task], now,
                          LogBlocked(inv.tool, BlockedTarget(inv),
                                     g.res.reason), uuid, io)
        client == GetClient(clients, inv.instance)
    IN  IF guard.kind = "raise"
        THEN Segment(calls, ctx, audit_file, <<>>, <<>>, <<guard>>)
        ELSE IF g.res # Allowed
        THEN IF logger.kind = "raise"
             THEN Segment(g.calls, ctx, audit_file, <<>>, <<>>, <<logger>>)
             ELSE Logged(g.calls, ctx, task, w, <<>>, FormatBlocked(g.res))
        ELSE IF client.kind = "raise"
        THEN Segment(g.calls, ctx, audit_file, <<>>,
                     <<[key |-> g.rl[1][1], t |-> now]>>, <<client>>)
        ELSE Segment(g.calls, ctx, audit_file, <<>>,
                     <<[key |-> g.rl[1][1], t |-> now]>>, <<>>)

\* A handler that gives the slot of its check back when the backend call
\* fails.
AfterBackendRefunds(c, key, outcome) ==
    IF outcome # "ok" /\ Get(c, key) # <<>>
    THEN Put(c, key, SubSeq(Get(c, key), 1, Len(Get(c, key)) - 1))
    ELSE c

\* The limiter's map once the backend call has come to outcome: the
\* handler does not touch the limiter again.
AfterBackend(c, key, outcome) == c

\* A read tool from the return of a backend call to its next await.
ReadToolResume(task, outcome, uuid, io) ==
    LET inv == tasks[task]
        logger == GetAuditLogger(_audit_logger)
        c == AfterBackend(calls, "read:" \o inv.tool, outcome)
        e == IF outcome = "ok" THEN LogRead(inv.tool, ReadTarget(inv))
             ELSE LogError(inv.tool, BlockedTarget(inv), ErrorText)
        w == AuditLogCall(log_path, audit_file, context[task], now, e, uuid,
                          io)
    IN  IF outcome = "TimeoutException"
        THEN Segment(c, context, audit_file, <<>>, <<>>,
                     <<Raised("RetryError")>>)
        ELSE IF outcome = "ok" /\ Tail(inv.todo) # <<>>
        THEN Segment(c, context, audit_file, <<>>, <<>>, <<>>)
        ELSE IF logger.kind = "raise"
        THEN Segment(c, context, audit_file, <<>>, <<>>, <<logger>>)
        ELSE Logged(c, context, task, w, <<>>,
                    IF outcome = "ok" THEN ReadText(inv) ELSE ErrorText)

\* The entries of a stretch, each with the task and the request it is of.
WrittenBy(task, inv, logged) ==
    [i \in DOMAIN logged |->
        [task |-> task, request_id |-> inv.request_id, entry |-> logged[i]]]

\* lifespan, up to its first await: the globals are set.
LifespanStartup ==
    /\ lifespan.pc = "down"
    /\ _settings = None
    /\ _settings' = Some("ServerSettings")
    /\ _safety_guard' = Some("SafetyGuard")
    /\ calls' = RateLimiterInit(max_calls, window).calls
    /\ _audit_logger' = Some("AuditLogger")
    /\ lifespan' = [lifespan EXCEPT !.pc = "connecting"]
    /\ last' = [op |-> "lifespan", step |-> "startup"]
    /\ UNCHANGED <<auditing, settings, clients, now, observers, tasks,
                   context, nreq, api_calls, admitted, records, _client,
                   request, opened, closed, sent>>

\* lifespan: the client of the next configured instance is made, entered
\* and stored in _clients; after the last one the handler is at its yield.
LifespanConnect(instance) ==
    /\ _settings # None
    /\ lifespan.pc = "connecting"
    /\ lifespan.todo # <<>>
    /\ instance = Head(lifespan.todo)
    /\ _client' = [_client EXCEPT ![instance] = ClientEnter(@).client]
    /\ opened' = [opened EXCEPT
                    ![instance] = @ + ClientEnter(_client[instance]).opened]
    /\ clients' = clients \cup {instance}
    /\ lifespan' = [pc |-> IF Tail(lifespan.todo) = <<>>
                           THEN "serving" ELSE "connecting",
                    todo |-> Tail(lifespan.todo)]
    /\ last' = [op |-> "lifespan", step |-> "connect"]
    /\ UNCHANGED <<auditing, serving, settings, calls, now, observers,
                   request, closed, sent>>

\* lifespan: making or entering the client of the next instance raises.
\* Nothing catches it: the handler ends there with the error.
LifespanConnectRaises ==
    /\ lifespan.pc = "connecting"
    /\ lifespan.todo # <<>>
    /\ lifespan' = [pc |-> "failed", todo |-> <<>>]
    /\ last' = [op |-> "lifespan", step |-> "raise"]
    /\ UNCHANGED <<auditing, serving, settings, calls, clients, now,
                   observers, _client, request, opened, closed, sent>>

\* The instances whose clients _clients holds, in the order of insertion.
Registered(registry) == SelectSeq(AllInstancesList, LAMBDA i : i \in registry)

\* lifespan at its yield, when the serving phase ends: the code after the
\* yield runs when the handler is resumed; an error thrown in at the yield
\* is not caught, and the handler ends there.
AfterYield(outcome, registry) ==
    IF outcome = "ok"
    THEN [pc |-> "closing", todo |-> Registered(registry)]
    ELSE [pc |-> "failed", todo |-> <<>>]

\* The serving phase ends, with or without an error.
LifespanYieldEnds(outcome) ==
    /\ lifespan.pc = "serving"
    /\ lifespan' = AfterYield(outcome, clients)
    /\ last' = [op |-> "lifespan", step |-> "shutdown", outcome |-> outcome]
    /\ UNCHANGED <<auditing, serving, settings, calls, clients, now,
                   observers, _client, request, opened, closed, sent>>

\* lifespan, shutdown: the next client of _clients is exited; after the
\* last one _clients is cleared and the handler returns.
LifespanDisconnect ==
    /\ lifespan.pc = "closing"
    /\ lifespan.todo # <<>>
    /\ LET instance == Head(lifespan.todo)
           done == Tail(lifespan.todo) = <<>>
       IN  /\ _client' = [_client EXCEPT ![instance] = ClientExit(@).client]
           /\ closed' = [closed EXCEPT
                           ![instance] = @ + ClientExit(_client[instance]).closed]
           /\ clients' = IF done THEN {} ELSE clients
           /\ lifespan' = [pc |-> IF done THEN "stopped" ELSE "closing",
                           todo |-> Tail(lifespan.todo)]
           /\ last' = [op |-> "lifespan", step |-> "disconnect",
                       instance |-> instance]
    /\ UNCHANGED <<auditing, serving, settings, calls, now, observers,
                   request, opened, sent>>

\* A tool call arrives: the handler is made a task of the loop, with a copy
\* of the server's context, where correlation_id has its default.
Receive(task, tool, request_id, name, instance) ==
    /\ tasks[task] = Idle
    /\ nreq < MaxRequests
    /\ nreq' = nreq + 1
    /\ tasks' = [tasks EXCEPT ![task] =
                    [pc |-> "scheduled", tool |-> tool,
                     request_id |-> request_id, name |-> name,
                     instance |-> instance, seen |-> calls,
                     todo |-> BackendCalls(tool)]]
    /\ context' = [context EXCEPT ![task] = ""]
    /\ last' = [op |-> "receive", task |-> task]
    /\ UNCHANGED <<transport, auditing, settings, calls, clients, now, observers,
                   _settings, _safety_guard, _audit_logger, api_calls,
                   admitted, records>>

\* The loop runs the handler of a task to its first await.
Enter(task, uuid, io) ==
    LET inv == tasks[task]
        r == ReadToolEntry(task, uuid, io)
    IN  /\ inv.pc = "scheduled"
        /\ calls' = r.calls
        /\ context' = r.context
        /\ audit_file' = r.file
        /\ records' = records \o WrittenBy(task, inv, r.logged)
        /\ admitted' = admitted \o r.passed
        /\ tasks' = [tasks EXCEPT ![task] =
                        IF r.out = <<>> THEN [inv EXCEPT !.pc = "awaiting"]
                        ELSE Idle]
        /\ last' = [op |-> "enter", task |-> task, tool |-> inv.tool,
                    instance |-> inv.instance, passed |-> r.passed,
                    out |-> r.out]
        /\ UNCHANGED <<transport, settings, clients, now, observers, log_path,
                       correlation_id, nlogs, _settings, _safety_guard,
                       _audit_logger, nreq, api_calls>>

\* The backend call a task awaits is made and comes to outcome; the loop
\* runs the handler to its next await.
Respond(task, outcome, uuid, io) ==
    LET inv == tasks[task]
        r == ReadToolResume(task, outcome, uuid, io)
    IN  /\ inv.pc = "awaiting"
        /\ calls' = r.calls
        /\ api_calls' = Append(api_calls, now)
        /\ context' = r.context
        /\ audit_file' = r.file
        /\ records' = records \o WrittenBy(task, inv, r.logged)
        /\ tasks' = [tasks EXCEPT ![task] =
                        IF r.out = <<>> THEN [inv EXCEPT !.todo = Tail(@)]
                        ELSE Idle]
        /\ last' = [op |-> "respond", task |-> task, tool |-> inv.tool,
                    call |-> Head(inv.todo), out |-> r.out]
        /\ UNCHANGED <<transport, settings, clients, now, observers, log_path,
                       correlation_id, nlogs, _settings, _safety_guard,
                       _audit_logger, nreq, admitted>>

(***************************************************************************)
(* Specifications.                                                         *)
(***************************************************************************)
InitCommon ==
    /\ calls = NoCalls
    /\ now = 0
    /\ last = [op |-> "init"]
    /\ hist = <<>>
    /\ run = NoRun
    /\ sinceReset = -1
    /\ denied = 0
    /\ audit_file = <<>>
    /\ correlation_id = ""
    /\ nlogs = 0

\* RateLimiter(max_calls, window_seconds): the constructor takes any
\* integers; a value below 0 behaves as 0 does.
\* The globals of a server that has started, with no call in flight.
InitServing ==
    /\ _settings = Some("ServerSettings")
    /\ _safety_guard = Some("SafetyGuard")
    /\ _audit_logger = Some("AuditLogger")
    /\ tasks = [t \in Tasks |-> Idle]
    /\ context = [t \in Tasks |-> ""]
    /\ nreq = 0
    /\ api_calls = <<>>
    /\ admitted = <<>>
    /\ records = <<>>

\* A server that is serving: the client of every connected instance has
\* been entered once, and no request is in progress.
InitTransport ==
    /\ lifespan = [pc |-> "serving", todo |-> <<>>]
    /\ _client = [i \in Instances |->
                    IF i \in clients THEN Some("AsyncClient") ELSE None]
    /\ opened = [i \in Instances |-> IF i \in clients THEN 1 ELSE 0]
    /\ closed = [i \in Instances |-> 0]
    /\ request = NoRequest
    /\ sent = 0

InitLimiter ==
    /\ InitCommon
    /\ InitServing
    /\ log_path = None
    /\ watch \in Keys
    /\ focus = ""
    /\ \E mc \in 0..MaxCalls, ws \in 0..MaxWindow :
          /\ max_calls = RateLimiterInit(mc, ws).max_calls
          /\ window = RateLimiterInit(mc, ws).window
          /\ calls = RateLimiterInit(mc, ws).calls
    /\ read_only = FALSE
    /\ disable_destructive = FALSE
    /\ single_cluster = FALSE
    /\ clients = {}
    /\ InitTransport

NextChecks ==
    \/ \E key \in Keys : Check(key)
    \/ Tick

NextLimiter ==
    \/ \E key \in Keys : Check(key)
    \/ \E optkey \in {None} \cup {Some(k) : k \in Keys} : Reset(optkey)
    \/ Tick

\* SafetyGuard(settings): SecuritySettings takes any three booleans and any
\* two integers.
InitGuard ==
    /\ InitCommon
    /\ InitServing
    /\ log_path = None
    /\ watch = ""
    /\ focus \in Operations
    /\ read_only \in BOOLEAN
    /\ disable_destructive \in BOOLEAN
    /\ single_cluster \in BOOLEAN
    /\ max_calls \in 0..MaxCalls
    /\ window \in 0..MaxWindow
    /\ clients = {}
    /\ InitTransport

\* One behaviour checks one operation name: the limiter keeps the keys of
\* different operations apart.
NextGuard ==
    \/ GuardRead(focus)
    \/ GuardWrite(focus)
    \/ \E target \in Targets, confirmed \in BOOLEAN,
          confirm_name \in ConfirmNames :
          GuardDestructive(focus, target, confirmed, confirm_name)
    \/ \E cluster \in Clusters : GuardCluster(focus, cluster)
    \/ Tick

\* The check_* methods of one SafetyGuard.
SpecGuard == InitGuard /\ [][NextGuard]_vars

WriteTools == {"sync_application", "refresh_application",
               "rollback_application", "terminate_sync",
               "delete_application"}

\* The state the lifespan handler leaves when the server starts serving:
\* the guard built from the settings and a client for each configured
\* instance, here none or the primary one.
Init ==
    /\ InitCommon
    /\ InitServing
    /\ log_path = None
    /\ watch = ""
    /\ focus \in WriteTools
    /\ read_only \in BOOLEAN
    /\ disable_destructive \in BOOLEAN
    /\ single_cluster = FALSE
    /\ max_calls \in 0..MaxCalls
    /\ window \in 0..MaxWindow
    /\ clients \in {{}, {"primary"}}
    /\ InitTransport

\* What the backend may come to for a call through this instance; with no
\* client of that name no call is made.
OutcomesOf(instance) == IF instance \in clients THEN Outcomes ELSE {"ok"}

\* One behaviour invokes one tool, any number of times: the limiter keeps
\* the keys of different tools apart.
Next ==
    \/ /\ focus = "sync_application"
       /\ \E name \in Targets, dry_run \in BOOLEAN, prune \in BOOLEAN,
             force \in BOOLEAN, revision \in {None},
             instance \in Instances :
             \E outcome \in OutcomesOf(instance) :
             SyncApplication(name, dry_run, prune, force, revision, instance,
                             outcome)
    \/ /\ focus = "refresh_application"
       /\ \E name \in Targets, hard \in {FALSE}, instance \in Instances :
             \E outcome \in OutcomesOf(instance) :
             RefreshApplication(name, hard, instance, outcome)
    \/ /\ focus = "rollback_application"
       /\ \E name \in Targets, revision_id \in {1}, dry_run \in BOOLEAN,
             instance \in Instances :
             \E outcome \in OutcomesOf(instance) :
             RollbackApplication(name, revision_id, dry_run, instance,
                                 outcome)
    \/ /\ focus = "terminate_sync"
       /\ \E name \in Targets, instance \in Instances :
             \E outcome \in OutcomesOf(instance) :
             TerminateSync(name, instance, outcome)
    \/ /\ focus = "delete_application"
       /\ \E name \in Targets, cascade \in BOOLEAN, confirm \in BOOLEAN,
             confirm_name \in ConfirmNames, instance \in Instances :
             \E outcome \in OutcomesOf(instance) :
             DeleteApplication(name, cascade, confirm, confirm_name,
                               instance, outcome)
    \/ Tick

\* The write and destructive tools of the running server.
Spec == Init /\ [][Next]_vars

\* The server in single-cluster mode, with one client.
InitClusters ==
    /\ InitCommon
    /\ InitServing
    /\ log_path = None
    /\ watch = ""
    /\ focus \in WriteTools
    /\ read_only \in BOOLEAN
    /\ disable_destructive \in BOOLEAN
    /\ single_cluster = TRUE
    /\ max_calls \in 0..MaxCalls
    /\ window \in 0..MaxWindow
    /\ clients = {"primary"}
    /\ InitTransport

\* The write and destructive tools invoked for applications of either
\* cluster, each through the primary instance.
NextClusters ==
    \/ /\ focus = "sync_application"
       /\ \E name \in Applications, dry_run \in BOOLEAN, prune \in BOOLEAN,
             outcome \in {"ok", "ArgocdError"} :
             SyncApplication(name, dry_run, prune, FALSE, None, "primary",
                             outcome)
    \/ /\ focus = "refresh_application"
       /\ \E name \in Applications, hard \in BOOLEAN,
             outcome \in {"ok", "ArgocdError"} :
             RefreshApplication(name, hard, "primary", outcome)
    \/ /\ focus = "rollback_application"
       /\ \E name \in Applications, dry_run \in BOOLEAN,
             outcome \in {"ok", "ArgocdError"} :
             RollbackApplication(name, 1, dry_run, "primary", outcome)
    \/ /\ focus = "terminate_sync"
       /\ \E name \in Applications, outcome \in {"ok", "ArgocdError"} :
             TerminateSync(name, "primary", outcome)
    \/ /\ focus = "delete_application"
       /\ \E name \in Applications, confirm \in BOOLEAN,
             confirm_name \in {None} \cup {Some(n) : n \in Applications},
             outcome \in {"ok", "ArgocdError"} :
             DeleteApplication(name, TRUE, confirm, confirm_name, "primary",
                               outcome)
    \/ Tick

\* The tools of a server started with MCP_SINGLE_CLUSTER=true.
SpecClusters == InitClusters /\ [][NextClusters]_vars

\* AuditLogger(log_path), to a file or to stdout, in a scope where no
\* correlation ID is set; the guard's settings play no part.
InitAudit ==
    /\ InitCommon
    /\ InitServing
    /\ log_path \in {None, Some("audit.log")}
    /\ watch = ""
    /\ focus = ""
    /\ read_only = FALSE
    /\ disable_destructive = FALSE
    /\ single_cluster = FALSE
    /\ max_calls = MaxCalls
    /\ window = MaxWindow
    /\ clients = {}
    /\ InitTransport

\* What the file may come to for this logger: stdout mode opens no file.
FileOutcomesOf(path) == IF path = None THEN {"ok"} ELSE FileOutcomes

DetailsArgs == {None, Some(<<>>), Some(<<<<"prune", "True">>>>)}

NextAudit ==
    \/ \E details \in DetailsArgs, uuid \in Generated,
          io \in FileOutcomesOf(log_path) :
          Log("log", "sync_application", "app-a", "success", details, uuid,
              io)
    \/ \E uuid \in Generated, io \in FileOutcomesOf(log_path) :
          AuditLogRead("get_application", "app-a", uuid, io)
    \/ \E details \in DetailsArgs, uuid \in Generated,
          io \in FileOutcomesOf(log_path) :
          AuditLogWrite("sync_application", "app-a", "initiated", details,
                        uuid, io)
    \/ \E uuid \in Generated, io \in FileOutcomesOf(log_path) :
          AuditLogBlocked("delete_application", "app-a",
                          "confirmation required", uuid, io)
    \/ \E uuid \in Generated, io \in FileOutcomesOf(log_path) :
          AuditLogError("sync_application", "app-a", ErrorText, uuid, io)
    \/ \E uuid \in Generated : ReadCorrelationId(uuid)
    \/ \E cid \in {"", "req-1"} : SetCorrelationId(cid)

\* One AuditLogger and the correlation ID of one scope, at one reading of
\* the clock.
SpecAudit == InitAudit /\ [][NextAudit]_vars

\* The server before its lifespan handler has run: no global is set, no
\* client is connected, no call has arrived.  The audit log is a file.
InitServer ==
    /\ InitCommon
    /\ log_path = Some("audit.log")
    /\ watch = ""
    /\ focus \in ReadTools
    /\ read_only = FALSE
    /\ disable_destructive = FALSE
    /\ single_cluster = FALSE
    /\ max_calls \in 0..MaxCalls
    /\ window = MaxWindow
    /\ clients = {}
    /\ lifespan = [pc |-> "down", todo |-> <<"primary">>]
    /\ _client = [i \in Instances |-> None]
    /\ opened = [i \in Instances |-> 0]
    /\ closed = [i \in Instances |-> 0]
    /\ request = NoRequest
    /\ sent = 0
    /\ _settings = None
    /\ _safety_guard = None
    /\ _audit_logger = None
    /\ tasks = [t \in Tasks |-> Idle]
    /\ context = [t \in Tasks |-> ""]
    /\ nreq = 0
    /\ api_calls = <<>>
    /\ admitted = <<>>
    /\ records = <<>>

\* The task a call that arrives is given: the tasks differ in name only.
FreeTask == CHOOSE task \in Tasks :
    tasks[task] = Idle \/ \A t \in Tasks : tasks[t] # Idle

\* The request ID the protocol gives the call a task handles, or none.
RequestIds(task) == {"", "req-" \o task}

NextServer ==
    \/ LifespanStartup
    \/ \E instance \in AllInstances : LifespanConnect(instance)
    \/ \E name \in Targets, instance \in AllInstances :
          \E request_id \in RequestIds(FreeTask) :
          Receive(FreeTask, focus, request_id, name, instance)
    \/ \E task \in Tasks, uuid \in Generated,
          io \in FileOutcomesOf(log_path) : Enter(task, uuid, io)
    \/ \E task \in Tasks, outcome \in Outcomes, uuid \in Generated,
          io \in FileOutcomesOf(log_path) : Respond(task, outcome, uuid, io)

\* One read tool of the server, from before its startup, two calls in
\* flight at a time, at one reading of the clock.
SpecServer == InitServer /\ [][NextServer]_vars

\* One ArgocdClient just constructed, used without the server.
InitClient ==
    /\ InitCommon
    /\ InitServing
    /\ log_path = None
    /\ watch = ""
    /\ focus = ""
    /\ read_only = FALSE
    /\ disable_destructive = FALSE
    /\ single_cluster = FALSE
    /\ max_calls = MaxCalls
    /\ window = MaxWindow
    /\ clients = {}
    /\ lifespan = [pc |-> "down", todo |-> <<>>]
    /\ _client = [i \in Instances |-> None]
    /\ opened = [i \in Instances |-> 0]
    /\ closed = [i \in Instances |-> 0]
    /\ request = NoRequest
    /\ sent = 0

NextClient ==
    \/ AEnter("primary")
    \/ AExit("primary")
    \/ RequestCall("primary")
    \/ \E response \in Responses : RequestAttempt(response)

\* The client entered, exited and asked for requests in any order.
SpecClient == InitClient /\ [][NextClient]_vars

\* The server's lifespan handler before it has run, for each list of
\* configured instances; no tool call arrives.
InitLifespan ==
    /\ InitCommon
    /\ log_path = None
    /\ watch = ""
    /\ focus = ""
    /\ read_only = FALSE
    /\ disable_destructive = FALSE
    /\ single_cluster = FALSE
    /\ max_calls = MaxCalls
    /\ window = MaxWindow
    /\ clients = {}
    /\ lifespan \in {[pc |-> "down", todo |-> SubSeq(AllInstancesList, 1, n)] :
                        n \in 1..Len(AllInstancesList)}
    /\ _client = [i \in Instances |-> None]
    /\ opened = [i \in Instances |-> 0]
    /\ closed = [i \in Instances |-> 0]
    /\ request = NoRequest
    /\ sent = 0
    /\ _settings = None
    /\ _safety_guard = None
    /\ _audit_logger = None
    /\ tasks = [t \in Tasks |-> Idle]
    /\ context = [t \in Tasks |-> ""]
    /\ nreq = 0
    /\ api_calls = <<>>
    /\ admitted = <<>>
    /\ records = <<>>

NextLifespan ==
    \/ LifespanStartup
    \/ \E instance \in Instances : LifespanConnect(instance)
    \/ LifespanConnectRaises
    \/ \E outcome \in {"ok", "error"} : LifespanYieldEnds(outcome)
    \/ LifespanDisconnect
    \/ \E instance \in clients : lifespan.pc = "serving" /\ RequestCall(instance)
    \/ \E response \in Responses : RequestAttempt(response)

\* The lifespan handler from start to end, and the requests the clients it
\* holds are asked for while the server serves.
SpecLifespan == InitLifespan /\ [][NextLifespan]_vars

\* A server with writes and destructive operations enabled, a window of at
\* least a second and the primary instance connected.
InitConfirm ==
    /\ InitCommon
    /\ InitServing
    /\ log_path = None
    /\ watch = ""
    /\ focus = "delete_application"
    /\ read_only = FALSE
    /\ disable_destructive = FALSE
    /\ single_cluster = FALSE
    /\ max_calls \in 0..MaxCalls
    /\ window \in 1..MaxWindow
    /\ clients = {"primary"}
    /\ InitTransport

NextConfirm ==
    \E name \in Targets, cascade \in BOOLEAN, confirm \in BOOLEAN,
       confirm_name \in ConfirmNames, instance \in Instances :
       \E outcome \in OutcomesOf(instance) :
       DeleteApplication(name, cascade, confirm, confirm_name, instance,
                         outcome)

\* delete_application called again and again at one reading of the clock,
\* so that all its calls fall within one window.
SpecConfirm == InitConfirm /\ [][NextConfirm]_vars

\* The operation names the sync tool hands to the guard.
SyncOperations == {"sync_application", "sync_with_prune"}

\* A guard that lets writes and destructive operations through to the
\* limiter.
InitBudgets ==
    /\ InitCommon
    /\ InitServing
    /\ log_path = None
    /\ watch = ""
    /\ focus = ""
    /\ read_only = FALSE
    /\ disable_destructive = FALSE
    /\ single_cluster = FALSE
    /\ max_calls \in 0..MaxCalls
    /\ window \in 1..MaxWindow
    /\ clients = {}
    /\ InitTransport

NextBudgets ==
    \/ \E operation \in SyncOperations : GuardRead(operation)
    \/ \E operation \in SyncOperations : GuardWrite(operation)
    \/ \E operation \in SyncOperations, target \in Targets,
          confirmed \in BOOLEAN, confirm_name \in ConfirmNames :
          GuardDestructive(operation, target, confirmed, confirm_name)

\* The guard asked about the two operations of the sync tool in any order,
\* at one reading of the clock.
SpecBudgets == InitBudgets /\ [][NextBudgets]_vars

\* check() calls only, at non-decreasing times.
SpecChecks == InitLimiter /\ [][NextChecks]_vars

\* check() and reset() calls.
SpecLimiter == InitLimiter /\ [][NextLimiter]_vars

(***************************************************************************)
(* The claims about the tools.                                             *)
(***************************************************************************)
\* The OperationBlocked values of the guard.
ReadOnlyBlock(operation) ==
    OperationBlocked(operation, "Server is running in read-only mode",
                     "MCP_READ_ONLY")

RateLimitBlock(operation) ==
    OperationBlocked(operation, "Rate limit exceeded", "MCP_RATE_LIMIT_CALLS")

DestructiveBlock(operation) ==
    OperationBlocked(operation, "Destructive operations are disabled",
                     "MCP_DISABLE_DESTRUCTIVE")

\* The calls of client.delete_application an invocation made.
Deletions(l) ==
    SelectSeq(l.backend, LAMBDA call : call.method = "delete_application")

\* The gates of delete_application as the invocation in l met them.
DeleteAuthorized(l) ==
    /\ ~read_only /\ ~disable_destructive
    /\ l.rl = <<<<"write:delete_application", TRUE>>>>
    /\ l.params.confirm
    /\ l.params.confirm_name = Some(l.params.name)

\* C1 as stated: an invocation of delete_application calls
\* client.delete_application exactly when read_only and disable_destructive
\* are false, the limiter admitted "write:delete_application", confirm is
\* true and confirm_name is the application's name.
DeleteIffAuthorized ==
    (last.op = "tool" /\ last.tool = "delete_application") =>
        (Deletions(last) # <<>>) = DeleteAuthorized(last)

\* C1: an invocation of delete_application calls client.delete_application
\* only when read_only and disable_destructive are false, the limiter
\* admitted "write:delete_application", confirm is true and confirm_name is
\* the application's name; when all of these hold and instance names a
\* client the server holds, it makes that call, once, for that application.
DeleteIffAuthorizedAndConnected ==
    (last.op = "tool" /\ last.tool = "delete_application") =>
        /\ (Deletions(last) # <<>>) =
               (DeleteAuthorized(last) /\ last.params.instance \in clients)
        /\ Deletions(last) # <<>> =>
               last.backend = <<[method |-> "delete_application",
                                 name |-> last.params.name,
                                 cascade |-> last.params.cascade]>>

\* A confirmed deletion went to the backend after the same request, made
\* without the name, had been turned down.
DeleteProceedsWitness ==
    /\ last.op = "tool" /\ last.tool = "delete_application"
    /\ DeleteAuthorized(last)
    /\ Deletions(last) # <<>>
    /\ last.out.kind = "return"
    /\ Len(Get(calls, "write:delete_application")) >= 2

\* The name of the operation a tool hands to the guard.
GuardedOperation(l) ==
    IF l.tool = "sync_application" /\ l.params.prune /\ ~l.params.dry_run
    THEN "sync_with_prune" ELSE l.tool

\* C2: with read_only true, an invocation of sync_application,
\* refresh_application, rollback_application, terminate_sync or
\* delete_application, whatever its parameters, makes no backend call and
\* returns the OPERATION BLOCKED message of the MCP_READ_ONLY setting.
ReadOnlyBlocksTools ==
    (last.op = "tool" /\ read_only) =>
        /\ last.backend = <<>>
        /\ last.out = Returned(FormatBlocked(
                                   ReadOnlyBlock(GuardedOperation(last))))

\* A dry-run sync is blocked under read-only mode.
ReadOnlyBlocksToolsWitness ==
    /\ last.op = "tool" /\ read_only
    /\ last.tool = "sync_application" /\ last.params.dry_run
    /\ last.out.kind = "return"
    /\ last.backend = <<>>

(***************************************************************************)
(* The claims about the guard.                                             *)
(***************************************************************************)
\* The one limiter check a call made, on the key of its operation.
ConsultedWriteKey(l) ==
    Len(l.rl) = 1 /\ l.rl[1][1] = "write:" \o l.operation

ConfirmationTwoFactor ==
    (/\ last.op = "check_destructive"
     /\ ~read_only /\ ~disable_destructive
     /\ ConsultedWriteKey(last) /\ last.rl[1][2]) =>
        IF last.confirmed /\ last.confirm_name = Some(last.target)
        THEN last.res = Allowed
        ELSE /\ last.res.kind = "ConfirmationRequired"
             /\ last.res.operation = last.operation
             /\ last.res.target = last.target
             /\ last.res.confirmation_instructions =
                  "To proceed, set confirm=true AND confirm_name='"
                      \o last.target \o "'"

\* confirm=true with the target's name in other letter case is turned down.
ConfirmationTwoFactorWitness ==
    /\ last.op = "check_destructive"
    /\ ~read_only /\ ~disable_destructive
    /\ last.rl # <<>> /\ last.rl[1][2]
    /\ last.confirmed /\ last.confirm_name = Some("APP-A")
    /\ last.target = "app-a"
    /\ last.res.kind = "ConfirmationRequired"

\* C5: with read_only true, check_write_operation returns the
\* OperationBlocked of read-only mode (setting MCP_READ_ONLY) for every
\* operation, whether the limiter would admit the key or reject it, and
\* does not ask the limiter.
ReadOnlyBlocksWrite ==
    (last.op = "check_write" /\ read_only) =>
        last.res = ReadOnlyBlock(last.operation) /\ last.rl = <<>>

\* Blocked by read-only mode while the limiter would have admitted the key.
ReadOnlyBlocksWriteWitness ==
    /\ last.op = "check_write" /\ read_only
    /\ last.res.setting = "MCP_READ_ONLY"
    /\ max_calls >= 1
    /\ RLCheck(calls, "write:" \o last.operation, now).ok

(***************************************************************************)
(* The claims about the limiter.                                           *)
(***************************************************************************)

\* C6: for every key and every run of check(key) calls at non-decreasing
\* times, at most max_calls admitted calls have their timestamps inside one
\* window of window_seconds.  A window is a span of window_seconds that ends
\* before the instant it began plus window_seconds, as check() itself counts
\* (now - t < window_seconds): any max_calls + 1 admissions in a row span at
\* least window_seconds.
SlidingWindowCeiling ==
    Len(hist) = max_calls + 1 => hist[Len(hist)] - hist[1] >= window

\* A key was filled, rejected, and admitted again a window later.
SlidingWindowWitness ==
    /\ max_calls >= 1
    /\ window >= 1
    /\ Len(hist) = max_calls + 1
    /\ hist[Len(hist)] - hist[1] = window
    /\ last.op = "check" /\ last.key = watch /\ last.ok

\* C7: on a key with no retained timestamps, max_calls check(key) calls in
\* a row at one instant all return true and the next one at that instant
\* returns false, for every max_calls >= 1.
CeilingAtOneInstant ==
    max_calls >= 1 => \A i \in 1..Len(run) : run[i] = (i <= max_calls)

\* C8: once the oldest timestamp a key retains is window_seconds old, a
\* check(key) returns true, however many check(key) calls were rejected
\* since the last admitted one.
ReadmitAfterWindow ==
    (last.op = "check" /\ last.stale) => last.ok

\* A key that was rejected MaxDenied times is admitted a window later.
ReadmitWitness ==
    /\ last.op = "check" /\ last.key = watch
    /\ last.stale /\ last.ok
    /\ last.denied = MaxDenied

\* C9: a check(k1) call, admitted or rejected, changes neither the entry of
\* another key k2 nor the answer of a check(k2) made afterwards, at that
\* instant or a later one.
KeyIndependence ==
    [][\A k \in Keys :
        (last'.op = "check" /\ now' = now /\ last'.key # k) =>
            /\ (k \in DOMAIN calls') = (k \in DOMAIN calls)
            /\ Get(calls', k) = Get(calls, k)
            /\ \A t \in now..MaxTime :
                 RLCheck(calls', k, t).ok = RLCheck(calls, k, t).ok]_vars

\* One key is full and was just rejected; the other one is then admitted.
KeyIndependenceWitness ==
    /\ max_calls >= 1
    /\ last.op = "check" /\ last.ok
    /\ \E k \in Keys \ {last.key} :
         /\ Len(Prune(Get(calls, k), now)) >= max_calls
         /\ k = watch /\ denied >= 1

\* C10: after reset(k), the first max_calls check(k) calls all return true,
\* however full k was before; after reset() the same holds for every key.
FullBudgetAfterReset ==
    (/\ last.op = "check" /\ last.key = watch
     /\ sinceReset >= 1 /\ sinceReset <= max_calls) => last.ok

\* The key held an unexpired admission before its reset, and max_calls more
\* were admitted after it.
FullBudgetWitness ==
    /\ max_calls >= 1
    /\ last.op = "check" /\ last.key = watch /\ last.ok
    /\ sinceReset = max_calls
    /\ Len(hist) = max_calls + 1
    /\ now - hist[1] < window

(***************************************************************************)
(* The claims about reset().                                               *)
(***************************************************************************)

\* C11: reset(key) with a string key, the empty string included, discards
\* the entry of that key and leaves the entry of every other key as it was;
\* with no entry for the key it changes nothing, and a second reset(key)
\* right after the first changes nothing more.
ResetDiscardsOnlyKey ==
    [][(last'.op = "reset" /\ last'.key # None) =>
          /\ calls' = Pop(calls, last'.key[1])
          /\ (last'.key[1] \notin DOMAIN calls => calls' = calls)
          /\ RLReset(calls', last'.key) = calls']_vars

(***************************************************************************)
(* The claims about the read and cluster checks.                           *)
(***************************************************************************)

\* C12: check_read_operation has no permission gate: whatever read_only,
\* disable_destructive and single_cluster are, it asks the limiter once,
\* for key "read:{operation}", returns None when the limiter admits the
\* call, and returns the OperationBlocked of the rate limit (reason "Rate
\* limit exceeded", setting MCP_RATE_LIMIT_CALLS) exactly when it rejects.
ReadHasNoPermissionGate ==
    last.op = "check_read" =>
        /\ Len(last.rl) = 1
        /\ last.rl[1][1] = "read:" \o last.operation
        /\ last.rl[1][2] => last.res = Allowed
        /\ ~last.rl[1][2] => last.res = RateLimitBlock(last.operation)

\* A read is let through with all three restrictions switched on.
ReadHasNoPermissionGateWitness ==
    /\ last.op = "check_read"
    /\ read_only /\ disable_destructive /\ single_cluster
    /\ last.rl # <<>> /\ last.rl[1][2]
    /\ last.res = Allowed

\* C13: check_cluster_operation returns OperationBlocked, with setting
\* MCP_SINGLE_CLUSTER, exactly when single_cluster is true and the cluster
\* is not "in-cluster" letter for letter; for "in-cluster" it returns None
\* under every configuration; and the call neither asks the limiter nor
\* changes its mapping.
ClusterGate ==
    [][last'.op = "check_cluster" =>
          /\ (last'.res.kind = "OperationBlocked") =
                 (single_cluster /\ last'.cluster # "in-cluster")
          /\ last'.res.kind = "OperationBlocked" =>
                 /\ last'.res.setting = "MCP_SINGLE_CLUSTER"
                 /\ last'.res.operation = last'.operation
          /\ last'.res.kind # "OperationBlocked" => last'.res = Allowed
          /\ last'.rl = <<>>
          /\ calls' = calls]_vars

\* In single-cluster mode a cluster named in other letter case is blocked,
\* with timestamps in the limiter.
ClusterGateWitness ==
    /\ last.op = "check_cluster"
    /\ single_cluster /\ last.cluster = "In-Cluster"
    /\ last.res.kind = "OperationBlocked"
    /\ calls # NoCalls

(***************************************************************************)
(* The claims about the tools and the audit trail.                         *)
(***************************************************************************)

\* C14: with single_cluster true, no tool invocation makes a write or
\* destructive backend call for an application whose destination cluster is
\* not "in-cluster".
SingleClusterBlocksRemote ==
    (last.op = "tool" /\ single_cluster) =>
        \A i \in 1..Len(last.backend) :
            last.backend[i].method \in WriteTools =>
                DestinationCluster(last.backend[i].name) = "in-cluster"

\* C15: when the check_* call of a tool invocation returns OperationBlocked
\* or ConfirmationRequired, the invocation makes no backend client call of
\* any kind.
NoBackendWhenBlocked ==
    (last.op = "tool" /\ last.check # Allowed) => last.backend = <<>>

\* C16: every tool invocation whose check_* call returns OperationBlocked,
\* of any cause, or ConfirmationRequired writes one "blocked" audit entry.
BlockedIsAudited ==
    (last.op = "tool" /\ last.check # Allowed) =>
        /\ Len(last.audit) = 1
        /\ last.audit[1].result = "blocked"

\* C17: every tool invocation whose check_* call returns None makes the
\* backend call and writes exactly one audit entry of the outcome, whether
\* it ends by returning or by an error.
AdmittedIsAudited ==
    (last.op = "tool" /\ last.check = Allowed) =>
        /\ Len(last.backend) = 1
        /\ Len(last.audit) = 1
        /\ last.audit[1].result # "blocked"

\* C18: in file mode the audit trail is append-only: the file holds one
\* record for each log() call that has returned, whether made directly or
\* through log_read, log_write, log_blocked or log_error; a step either
\* leaves the file as it is or is a log() call that puts its own record
\* after the records already there, none of which it changes or removes.
AuditAppendOnly ==
    /\ [](log_path # None => Len(audit_file) = nlogs)
    /\ [][log_path # None =>
             \/ audit_file' = audit_file
             \/ /\ last'.op = "log" /\ last'.out.kind = "return"
                /\ Len(audit_file') = Len(audit_file) + 1
                /\ SubSeq(audit_file', 1, Len(audit_file)) = audit_file
                /\ audit_file'[Len(audit_file')].action = last'.action
                /\ audit_file'[Len(audit_file')].target = last'.target
                /\ audit_file'[Len(audit_file')].result = last'.result]_vars

\* Two calls through different methods left their two records in order.
AuditAppendOnlyWitness ==
    /\ log_path # None
    /\ nlogs = 2 /\ Len(audit_file) = 2
    /\ audit_file[1].result = "blocked"
    /\ audit_file[2].result = "error"
    /\ last.op = "log" /\ last.via = "log_error"

\* C19: a record of the audit file has exactly the fields timestamp,
\* correlation_id, action, target and result, and details besides only when
\* the details given to log() is a non-empty mapping: with details None or
\* {} the record has no details key.
AuditRecordFields ==
    (last.op = "log" /\ last.out = Returned("")) =>
        LET rec == audit_file[Len(audit_file)]
            given == last.details # None /\ last.details[1] # <<>>
        IN  /\ DOMAIN rec =
                  {"timestamp", "correlation_id", "action", "target",
                   "result"} \cup (IF given THEN {"details"} ELSE {})
            /\ rec.action = last.action
            /\ rec.target = last.target
            /\ rec.result = last.result
            /\ rec.correlation_id = last.cid
            /\ given => rec.details = last.details[1]

\* log() given an empty mapping wrote a record without a details key.
AuditRecordFieldsWitness ==
    /\ last.op = "log" /\ last.out = Returned("")
    /\ last.details = Some(<<>>)
    /\ "details" \notin DOMAIN audit_file[Len(audit_file)]

\* C20: within one scope, a get_correlation_id() made while no ID is set
\* returns a newly generated, non-empty value and stores it; every read
\* after that, the one log() makes for its entry included, returns the
\* stored value, until set_correlation_id is called; and after
\* set_correlation_id(c) with c non-empty the stored value, which reads
\* return, is c.
CorrelationIdStable ==
    [][/\ last'.op \in {"get_correlation_id", "log"} =>
             /\ last'.cid # ""
             /\ correlation_id' = last'.cid
             /\ correlation_id # "" => last'.cid = correlation_id
             /\ correlation_id = "" => last'.cid \in Generated
             /\ (last'.op = "log" /\ last'.out = Returned("")) =>
                   audit_file'[Len(audit_file')].correlation_id = last'.cid
       /\ (last'.op = "set_correlation_id" /\ last'.cid # "") =>
             correlation_id' = last'.cid]_vars

\* The first log() of a scope generated an ID and the second one reused it.
CorrelationIdStableWitness ==
    /\ last.op = "log" /\ last.out = Returned("")
    /\ Len(audit_file) = 2
    /\ audit_file[1].correlation_id \in Generated
    /\ audit_file[2].correlation_id = audit_file[1].correlation_id

(***************************************************************************)
(* The claims about what a check leaves in the limiter.                    *)
(***************************************************************************)

\* C28: a check_write_operation or check_destructive_operation call that
\* read_only blocks leaves the limiter's mapping exactly as it was: no key
\* gets an entry and no entry is pruned or appended to.
ReadOnlyBlockKeepsLimiter ==
    [][(/\ last'.op \in {"check_write", "check_destructive"}
        /\ last'.res = ReadOnlyBlock(last'.operation)) =>
          calls' = calls]_vars

\* A destructive check is blocked by read-only mode while the limiter holds
\* timestamps of read checks and no entry for the write key.
ReadOnlyBlockKeepsLimiterWitness ==
    /\ last.op = "check_destructive"
    /\ last.res = ReadOnlyBlock(last.operation)
    /\ ("read:" \o last.operation) \in DOMAIN calls
    /\ ("write:" \o last.operation) \notin DOMAIN calls

\* C29: a check(key) call that returns false records no timestamp: the
\* sequence the key retains afterwards is the unexpired timestamps it held
\* before the call, in the same order.
RejectedRecordsNothing ==
    [][(last'.op = "check" /\ now' = now /\ ~last'.ok) =>
          Get(calls', last'.key) =
              SelectSeq(Get(calls, last'.key),
                        LAMBDA t : now - t < window)]_vars

\* A full key is rejected MaxDenied times and then once more, and holds what
\* it held.
RejectedRecordsNothingWitness ==
    /\ max_calls >= 1
    /\ last.op = "check" /\ last.key = watch /\ ~last.ok
    /\ last.denied = MaxDenied
    /\ Len(Get(calls, watch)) = max_calls

\* C30: after a check(key) call made at time now, every timestamp t the
\* key retains satisfies now - t < window_seconds.
RetainedWithinWindow ==
    [][(last'.op = "check" /\ now' = now) =>
          \A i \in 1..Len(Get(calls', last'.key)) :
              now - Get(calls', last'.key)[i] < window]_vars

(***************************************************************************)
(* The claims about the destructive tools and the server's call budget.    *)
(***************************************************************************)

\* C25: with disable_destructive true and read_only false, an invocation of
\* delete_application, or of sync_application with prune=true whatever
\* dry_run is, is blocked by the guard and makes no backend call.
DestructiveDisabledBlocks ==
    (/\ last.op = "tool"
     /\ disable_destructive /\ ~read_only
     /\ \/ last.tool = "delete_application"
        \/ last.tool = "sync_application" /\ last.params.prune) =>
        /\ last.check # Allowed
        /\ last.backend = <<>>

\* C24: no RateLimiter exists with a max_calls or a window_seconds below 1:
\* constructing one fails, so no limiter that rejects every call or admits
\* every call is ever in use.
LimiterParametersPositive ==
    max_calls >= 1 /\ window >= 1

(***************************************************************************)
(* The claims about the server's startup and its calls in flight.          *)
(***************************************************************************)
\* C27: while the lifespan handler has not run, get_settings,
\* get_safety_guard and get_audit_logger raise RuntimeError("Server not
\* initialized"), and a tool called then ends with that error, with no
\* check counted, nothing written and no backend call ahead of it; once
\* the server is initialized, a tool that passed its check and names an
\* instance with no connected client ends with the ValueError of get_client.
UninitializedToolFails ==
    /\ [](_settings = None =>
            /\ _safety_guard = None /\ _audit_logger = None
            /\ GetSettings(_settings) = NotInitialized
            /\ GetSafetyGuard(_safety_guard) = NotInitialized
            /\ GetAuditLogger(_audit_logger) = NotInitialized)
    /\ [][\A task \in Tasks :
            tasks[task].pc = "scheduled" /\ tasks'[task] # tasks[task] =>
               /\ _safety_guard = None =>
                     /\ last'.out = <<NotInitialized>>
                     /\ tasks'[task] = Idle
                     /\ calls' = calls
                     /\ audit_file' = audit_file
                     /\ api_calls' = api_calls
               /\ (/\ _safety_guard # None
                   /\ last'.passed # <<>>
                   /\ tasks[task].instance \notin clients) =>
                     /\ last'.out = <<Raised("ValueError")>>
                     /\ tasks'[task] = Idle
                     /\ api_calls' = api_calls]_vars

UninitializedToolFailsWitness ==
    /\ _safety_guard = None
    /\ last.op = "enter"
    /\ last.out = <<NotInitialized>>
    /\ \A task \in Tasks : tasks[task] = Idle

\* C26: with a positive rate_limit_calls and rate_limit_window, the server
\* makes at most rate_limit_calls calls to the ArgoCD API within any
\* rate_limit_window seconds, whatever tools and operations make them.
ApiCallBudget ==
    (max_calls >= 1 /\ window >= 1) =>
        Cardinality({i \in DOMAIN api_calls : api_calls[i] > now - window})
            <= max_calls

\* C21: with two tool calls in flight at once, taking turns at their
\* awaits, every audit entry carries the correlation ID of the call that
\* wrote it: the request ID that call was given, or, given none, an ID
\* generated in its own context; and while a call awaits, its context
\* still holds the ID it set.
CorrelationIdIsolation ==
    /\ \A i \in DOMAIN records :
          IF records[i].request_id # ""
          THEN records[i].entry.correlation_id = records[i].request_id
          ELSE records[i].entry.correlation_id \in Generated
    /\ \A task \in Tasks :
          tasks[task].pc = "awaiting" =>
              context[task] = tasks[task].request_id

CorrelationIdIsolationWitness ==
    \E u \in Tasks : \E v \in Tasks \ {u} :
        /\ tasks[v].pc = "awaiting"
        /\ tasks[v].request_id # ""
        /\ last.op = "enter"
        /\ last.task = u
        /\ records # <<>>
        /\ records[Len(records)].task = u
        /\ records[Len(records)].request_id # ""
        /\ records[Len(records)].request_id # tasks[v].request_id

\* C22: with check(key) called by tool calls in flight at once, no more
\* than max_calls checks of one key pass within a window: two callers
\* never both find the count below max_calls and both pass beyond it.
ConcurrentChecksCeiling ==
    \A k \in {admitted[i].key : i \in DOMAIN admitted} :
        Cardinality({i \in DOMAIN admitted :
                        /\ admitted[i].key = k
                        /\ admitted[i].t > now - window}) <= max_calls

ConcurrentChecksCeilingWitness ==
    \E u \in Tasks : \E v \in Tasks \ {u} :
        /\ max_calls >= 1
        /\ Len(admitted) = max_calls
        /\ tasks[v].pc = "awaiting"
        /\ last.op = "enter"
        /\ last.task = u
        /\ last.passed = <<>>
        /\ last.out # <<>>
        /\ last.out[1] # NotInitialized

\* C23: with log() called by tool calls in flight at once on one audit
\* file, the file holds the record of every call that returned, whole and
\* once, and nothing else.
ConcurrentLogsWhole ==
    log_path # None =>
        audit_file = [i \in DOMAIN records |-> records[i].entry]

ConcurrentLogsWholeWitness ==
    /\ log_path # None
    /\ Len(audit_file) = MaxRequests
    /\ \E i \in DOMAIN records, j \in DOMAIN records :
          records[i].task # records[j].task
    /\ last.op = "respond"

(***************************************************************************)
(* The claims about the limiter's place among the gates and its budgets.   *)
(***************************************************************************)
\* C31: check_destructive_operation applies the rate limit after the
\* confirmation: a call it answers with the disable_destructive block or
\* with ConfirmationRequired has not consulted the limiter and has taken no
\* slot.
DestructiveLimitedLast ==
    (/\ last.op = "check_destructive"
     /\ \/ last.res = DestructiveBlock(last.operation)
        \/ last.res.kind = "ConfirmationRequired") =>
        last.rl = <<>>

\* The key a check of the guard is counted under.
BudgetKey(l) ==
    (IF l.op = "check_read" THEN "read:" ELSE "write:") \o l.operation

\* The key has no room left at time t.
Exhausted(c, key, t) == Len(Prune(Get(c, key), t)) >= max_calls

\* C34: the rate-limit budgets are separate per mode and per operation
\* name: a check of the guard is counted under "read:{operation}" or
\* "write:{operation}" of its own operation, is admitted exactly when that
\* key has room, whatever the other keys hold, and leaves every other key
\* as it was; so with "write:sync_application" exhausted the destructive
\* check of "sync_with_prune" and the read check of "sync_application"
\* are still admitted.
BudgetsSeparate ==
    [][/\ last'.rl = <<<<BudgetKey(last'),
                         ~Exhausted(calls, BudgetKey(last'), now)>>>>
       /\ \A key \in (DOMAIN calls \cup DOMAIN calls') \ {BudgetKey(last')} :
             Get(calls', key) = Get(calls, key)]_vars

BudgetsSeparateWitness ==
    /\ max_calls >= 1
    /\ Exhausted(calls, "write:sync_application", now)
    /\ Exhausted(calls, "read:sync_with_prune", now)
    /\ last.op \in {"check_destructive", "check_read"}
    /\ BudgetKey(last) \in {"write:sync_with_prune", "read:sync_application"}
    /\ last.rl[1][2]

\* The message sync_application returns for a prune that is no dry run.
PruneRequiresConfirmation(name) ==
    "PRUNE REQUIRES CONFIRMATION\n\nSyncing '" \o name
        \o "' with prune=true will DELETE resources that exist"
        \o " in the cluster but not in Git.\n\nFirst, run with"
        \o " dry_run=true to preview deletions:\n"
        \o "  sync_application(name='" \o name
        \o "', dry_run=true, prune=true)\n\nFor pruning, use the"
        \o " destructive sync tool with confirmation."

\* C33: every backend sync call sync_application makes with prune=true has
\* dry_run=true: called with prune=true and dry_run=false it makes no
\* backend call under any settings and returns the prune-requires-
\* confirmation message or the OPERATION BLOCKED message of its check.
PruneNeverReachesBackend ==
    (last.op = "tool" /\ last.tool = "sync_application") =>
        /\ \A i \in DOMAIN last.backend :
              last.backend[i].prune => last.backend[i].dry_run
        /\ (last.params.prune /\ ~last.params.dry_run) =>
              /\ last.backend = <<>>
              /\ last.check # Allowed
              /\ last.out =
                    IF last.check.kind = "OperationBlocked"
                    THEN Returned(FormatBlocked(last.check))
                    ELSE Returned(PruneRequiresConfirmation(
                                      last.params.name))

PruneNeverReachesBackendWitness ==
    /\ last.op = "tool" /\ last.tool = "sync_application"
    /\ last.params.prune /\ ~last.params.dry_run
    /\ ~read_only /\ ~disable_destructive
    /\ last.params.instance \in clients
    /\ last.check.kind = "ConfirmationRequired"
    /\ last.backend = <<>>

(***************************************************************************)
(* The claims about the confirmation flow of delete_application.           *)
(***************************************************************************)
\* A delete_application call that does or does not carry the confirmation.
ConfirmedDelete(l) ==
    /\ l.op = "tool" /\ l.tool = "delete_application"
    /\ l.params.confirm
    /\ l.params.confirm_name = Some(l.params.name)
UnconfirmedDelete(l) ==
    /\ l.op = "tool" /\ l.tool = "delete_application"
    /\ ~(l.params.confirm /\ l.params.confirm_name = Some(l.params.name))

\* The call took a slot of "write:delete_application".
TookSlot(l) == l.rl = <<<<"write:delete_application", TRUE>>>>

\* The slots of "write:delete_application" that were free before the call
\* l, seen from the state it left, with no time gone by.
FreeBefore(l) ==
    (max_calls - Len(Prune(Get(calls, "write:delete_application"), now)))
        + (IF TookSlot(l) THEN 1 ELSE 0)

\* The step from an unconfirmed call to a confirmed call for the same name.
ConfirmationFlowStep ==
    /\ UnconfirmedDelete(last)
    /\ ConfirmedDelete(last')
    /\ last'.params.name = last.params.name

\* The unconfirmed call took a slot when one was free, and with
\* rate_limit_calls=1 the confirmed call gets the rate-limit block.
ConfirmationFlowSlots ==
    /\ TookSlot(last) = (FreeBefore(last) >= 1)
    /\ max_calls = 1 =>
          /\ last'.check = RateLimitBlock("delete_application")
          /\ last'.out = Returned(FormatBlocked(last'.check))
          /\ last'.backend = <<>>

SlotNeverGivenBack ==
    [][/\ \A key \in DOMAIN calls :
             /\ key \in DOMAIN calls'
             /\ Len(calls'[key]) >= Len(calls[key])
             /\ SubSeq(calls'[key], 1, Len(calls[key])) = calls[key]
       /\ \A task \in Tasks :
             (tasks[task].pc = "awaiting" /\ tasks'[task] # tasks[task]) =>
                 calls' = calls]_vars

\* The backend call of an admitted list_applications or
\* diagnose_sync_failure failed, and the slot of its check is still taken.
SlotNeverGivenBackWitness ==
    /\ last.op = "respond"
    /\ last.out = <<Returned(ErrorText)>>
    /\ max_calls >= 1
    /\ \A task \in Tasks : tasks[task] = Idle
    /\ Len(Get(calls, "read:" \o last.tool)) = Len(admitted)
    /\ admitted # <<>>

\* C36: a failure to open or write the audit file during log() reaches the
\* caller as an error: whenever a handler is about to run a stretch that
\* calls log() and the file fails, log() raises that error, the handler
\* ends with it instead of its message, and no record is counted written.
AuditFailurePropagates ==
    /\ \A uuid \in Generated, e \in {LogRead("list_applications", "all")} :
          /\ AuditLogCall(log_path, audit_file, "", now, e, uuid,
                          "OSError").out =
                 (IF log_path = None THEN Returned("")
                  ELSE Raised("OSError"))
          /\ AuditLogCall(log_path, audit_file, "", now, e, uuid,
                          "OSError").file = audit_file
    /\ \A task \in Tasks, uuid \in Generated :
          /\ (/\ tasks[task].pc = "scheduled"
              /\ log_path # None
              /\ ReadToolEntry(task, uuid, "ok").logged # <<>>) =>
                 /\ ReadToolEntry(task, uuid, "OSError").out =
                        <<Raised("OSError")>>
                 /\ ReadToolEntry(task, uuid, "OSError").logged = <<>>
          /\ \A outcome \in Outcomes :
                (/\ tasks[task].pc = "awaiting"
                 /\ log_path # None
                 /\ ReadToolResume(task, outcome, uuid, "ok").logged # <<>>)
                    =>
                    /\ ReadToolResume(task, outcome, uuid, "OSError").out =
                           <<Raised("OSError")>>
                    /\ ReadToolResume(task, outcome, uuid, "OSError").logged
                           = <<>>

\* A handler that passed its check and got its answer from the backend
\* ended with the error of the audit file.
AuditFailurePropagatesWitness ==
    /\ last.op = "respond"
    /\ last.out = <<Raised("OSError")>>
    /\ log_path # None
    /\ audit_file = <<>>
    /\ api_calls # <<>>

(***************************************************************************)
(* The claims about ArgocdClient and the lifespan handler.                 *)
(***************************************************************************)
\* C38: an attempt of _request made while the client holds no HTTP client,
\* before __aenter__ or after __aexit__, sends nothing and ends the call
\* with RuntimeError; after __aenter__ the HTTP client exists; __aexit__
\* closes the HTTP client there is and leaves the client not initialised,
\* and a second __aexit__ closes nothing and leaves it so.
ClientLifecycle ==
    /\ [](\A i \in Instances :
            /\ closed[i] + (IF _client[i] = None THEN 0 ELSE 1) <= opened[i]
            /\ opened[i] = 0 => _client[i] = None)
    /\ [][/\ (request.pc = "attempt" /\ request' # request
                 /\ _client[request.instance] = None) =>
                /\ sent' = sent
                /\ request' = NoRequest
                /\ last'.op = "request"
                /\ last'.out = Raised("RuntimeError")
          /\ \A i \in Instances :
                /\ opened'[i] > opened[i] => _client'[i] # None
                /\ (last'.op = "aexit" /\ last'.instance = i
                       /\ last' # last) =>
                      /\ _client'[i] = None
                      /\ closed'[i] = closed[i]
                             + (IF _client[i] = None THEN 0 ELSE 1)]_vars

\* A request was refused after the client had been entered and exited, and
\* exited once more.
ClientLifecycleWitness ==
    /\ last.op = "request"
    /\ last.out = Raised("RuntimeError")
    /\ last.sent = 0
    /\ opened["primary"] = 1
    /\ closed["primary"] = 1
    /\ _client["primary"] = None

\* C39: _request runs its body again only after a timeout, and at most
\* StopAfterAttempt times in all, so it ends; a response of 400 or above
\* ends the call with ArgocdError on the attempt that got it, with no
\* further attempt.
RetryOnlyTimeouts ==
    /\ request.pc = "attempt" =>
          /\ Len(request.responses) < StopAfterAttempt
          /\ \A i \in DOMAIN request.responses :
                request.responses[i] = "TimeoutException"
    /\ last.op = "request" =>
          /\ Len(last.responses) <= StopAfterAttempt
          /\ last.sent <= StopAfterAttempt
          /\ \A i \in DOMAIN last.responses :
                i < Len(last.responses) =>
                    last.responses[i] = "TimeoutException"
          /\ last.responses[Len(last.responses)] = "500" =>
                last.out = Raised("ArgocdError")
          /\ last.responses[1] = "500" => last.sent = 1

\* The third attempt timed out as well and the call ended.
RetryOnlyTimeoutsWitness ==
    /\ last.op = "request"
    /\ Len(last.responses) = StopAfterAttempt
    /\ last.sent = StopAfterAttempt
    /\ last.out = Raised("RetryError")

\* C37: once the lifespan handler has ended, by returning or with an error
\* raised during startup or thrown in at its yield, every client it had
\* entered has been exited exactly once and _clients is empty.
LifespanReleasesClients ==
    lifespan.pc \in {"stopped", "failed"} =>
        /\ clients = {}
        /\ \A i \in Instances :
              /\ closed[i] = opened[i]
              /\ _client[i] = None

====
